---- MODULE Spec2Model ----
(***************************************************************************)
(* KweliVote fingerprint template engine: fusion, canonicalization,        *)
(* quantization, stabilization, the ISO template codec, coordinate repair  *)
(* and the BOZORTH3 matcher adapter, modelled from                         *)
(* kwelivote-app/backend/iso_fingerprint_template_app.                     *)
(*                                                                         *)
(* A minutia point is a tuple <<x, y, theta>>; a point list is a sequence  *)
(* of points; a template buffer is a sequence of bytes (0..255).           *)
(***************************************************************************)
EXTENDS Integers, Sequences, FiniteSets, TLC

(***************************************************************************)
(* Program constants                                                       *)
(***************************************************************************)
\* target_count: the fixed number of minutiae of a stabilized template
K == 40
\* max_distance of the stabilizer's fixed-threshold outlier removal
MaxDistance == 200
\* largest valid coordinate of the 500 x 500 image
MaxCoord == 499
\* offset the decoders skip as "the 32-byte header"
DecodeOffset == 32
\* expected_size = 32 + (40 * 6) of the enrollment size check
ExpectedSize == 272
\* centre used by the repair's reliability ordering
CenterXY == 250
\* modulus of the matcher's angle domain
MatcherAngleMod == 180

(***************************************************************************)
(* Arithmetic and sequence helpers                                         *)
(***************************************************************************)
Min2(a, b) == IF a <= b THEN a ELSE b
Max2(a, b) == IF a >= b THEN a ELSE b

\* Python int(q) of the float a / b for b > 0: truncation toward zero
TruncDiv(a, b) == IF a >= 0 THEN a \div b ELSE -((-a) \div b)

\* Python v & 0x3FFF on an unbounded two's-complement integer
Mask14(v) == v % 16384

\* Python (b & 0x7F) on a byte
Mask7(b) == b % 128

\* s[lo] + ... + s[hi], summed by halves
RECURSIVE SumRange(_, _, _)
SumRange(s, lo, hi) ==
    IF lo > hi THEN 0
    ELSE IF lo = hi THEN s[lo]
    ELSE SumRange(s, lo, (lo + hi) \div 2) + SumRange(s, ((lo + hi) \div 2) + 1, hi)

SeqSum(s) == SumRange(s, 1, Len(s))

\* seqs[lo] \o ... \o seqs[hi], joined by halves
RECURSIVE FlattenRange(_, _, _)
FlattenRange(seqs, lo, hi) ==
    IF lo > hi THEN <<>>
    ELSE IF lo = hi THEN seqs[lo]
    ELSE FlattenRange(seqs, lo, (lo + hi) \div 2) \o FlattenRange(seqs, ((lo + hi) \div 2) + 1, hi)

\* the concatenation of a sequence of sequences
Flatten(seqs) == FlattenRange(seqs, 1, Len(seqs))

\* lexicographic order on integer tuples of equal length (Python tuple compare)
RECURSIVE LexLess(_, _)
LexLess(a, b) ==
    IF a = <<>> THEN FALSE
    ELSE IF Head(a) < Head(b) THEN TRUE
    ELSE IF Head(a) > Head(b) THEN FALSE
    ELSE LexLess(Tail(a), Tail(b))

\* the place of entry i of the list t in the stable order by key: after the
\* entries with a smaller key and the earlier entries with an equal key
place_of(t, i) ==
    1 + Cardinality({j \in 1..Len(t) : \/ LexLess(t[j][1], t[i][1])
                                       \/ (j < i /\ ~LexLess(t[i][1], t[j][1]))})

places(t) == SubSeq([i \in 1..Len(t) |-> place_of(t, i)], 1, Len(t))

\* the entries of t arranged by their places p
arranged(t, p) ==
    SubSeq([k \in 1..Len(t) |-> t[CHOOSE i \in 1..Len(t) : p[i] = k]], 1, Len(t))

\* list.sort(key=...): a stable sort of <<key, value>> pairs by key (t is the
\* list s as a value)
SortKeyed(s) == CHOOSE sorted \in {arranged(t, places(t)) : t \in {s}} : TRUE

Values(keyed) == [i \in 1..Len(keyed) |-> keyed[i][2]]

\* sort(key=lambda point: (point[0], point[1], point[2]))
SortPoints(pts) == Values(SortKeyed([i \in 1..Len(pts) |-> <<pts[i], pts[i]>>]))

SortInts(vals) == Values(SortKeyed([i \in 1..Len(vals) |-> <<<<vals[i]>>, vals[i]>>]))

IsSortedPoints(pts) ==
    \A i \in 1..(Len(pts) - 1) : ~LexLess(pts[i + 1], pts[i])

\* floor of the square root, as np.sqrt(n).astype(int) for n >= 0
RECURSIVE ISqrtIn(_, _, _)
ISqrtIn(n, lo, hi) ==
    IF lo >= hi THEN lo
    ELSE LET mid == (lo + hi + 1) \div 2
         IN  IF mid * mid <= n THEN ISqrtIn(n, mid, hi) ELSE ISqrtIn(n, lo, mid - 1)

ISqrt(n) == ISqrtIn(n, 0, 1024)

\* the middle entry of a sorted list, or the truncated mean of its two middle
\* entries
MiddleOf(s) ==
    IF Len(s) % 2 = 1 THEN s[(Len(s) + 1) \div 2]
    ELSE TruncDiv(s[Len(s) \div 2] + s[(Len(s) \div 2) + 1], 2)

\* int(np.median(column)) of a non-empty integer column
MedianInt(vals) == MiddleOf(SortInts(vals))

Column(pts, c) == [i \in 1..Len(pts) |-> pts[i][c]]

\* the subsequence of s at the positions in idx, in ascending position order
Pick(s, idx) == Flatten([i \in 1..Len(s) |-> IF i \in idx THEN <<s[i]>> ELSE <<>>])

Count(s, e) == Cardinality({i \in 1..Len(s) : s[i] = e})

\* the positions idx in ascending order (np.where(mask)[0], points[inliers])
ascending(idx) ==
    IF idx = {} THEN <<>>
    ELSE Pick([i \in 1..(CHOOSE m \in idx : \A j \in idx : j <= m) |-> i], idx)

(***************************************************************************)
(* np.argsort with the default kind: the argsort quicksort of numpy's        *)
(* npysort (median of three, insertion sort for short ranges)              *)
(***************************************************************************)
\* SMALL_QUICKSORT of numpy's npysort: a range with pr - pl <= 16 is sorted by
\* insertion
SmallQuicksort == 16

\* INTP_SWAP(t[a], t[b])
swapped(t, a, b) == [t EXCEPT ![a] = t[b], ![b] = t[a]]

\* npy_get_msb(n): the position of the highest bit set
RECURSIVE npy_get_msb(_)
npy_get_msb(n) == IF n <= 1 THEN 0 ELSE 1 + npy_get_msb(n \div 2)

\* "do ++pi while (v[*pi] < vp)", pi already advanced once: the first place
\* from pi on whose key is not below the pivot's (the pivot parked at pr - 1
\* is such a place)
aq_up(v, t, vp, pi) ==
    CHOOSE i \in pi..Len(t) : ~(v[t[i]] < vp) /\ \A j \in pi..(i - 1) : v[t[j]] < vp

\* "do --pj while (vp < v[*pj])", pj already stepped back once: the last
\* place up to pj whose key is not above the pivot's (pl is such a place)
aq_down(v, t, vp, pj) ==
    CHOOSE j \in 1..pj : ~(vp < v[t[j]]) /\ \A k \in (j + 1)..pj : vp < v[t[k]]

\* "if (pi >= pj) break; INTP_SWAP(*pi, *pj)" at the places i and j the two
\* inner loops stopped at
aq_swap_or_break(t, i, j) ==
    IF i >= j THEN [t |-> t, pi |-> i, pj |-> j, done |-> TRUE]
    ELSE [t |-> swapped(t, i, j), pi |-> i, pj |-> j, done |-> FALSE]

\* one pass of the "for (;;)" loop of the partition
aq_scan_step(v, s, vp) ==
    aq_swap_or_break(s.t, aq_up(v, s.t, vp, s.pi + 1), aq_down(v, s.t, vp, s.pj - 1))

\* at most n passes of the loop from the state s, stopping at the break
RECURSIVE aq_scan_run(_, _, _, _)
aq_scan_run(v, s, vp, n) ==
    IF s.done \/ n = 0 THEN s
    ELSE IF n = 1 THEN aq_scan_step(v, s, vp)
    ELSE aq_scan_run(v, aq_scan_run(v, s, vp, n \div 2), vp, n - (n \div 2))

\* the "for (;;)" loop of the partition: the index array and pi at the break
\* (every pass but the last swaps two places, so pj - pi passes are enough)
aq_scan(v, t, vp, pi, pj) ==
    aq_scan_run(v, [t |-> t, pi |-> pi, pj |-> pj, done |-> FALSE], vp, pj - pi)

\* "if (v[*b] < v[*a]) INTP_SWAP(*b, *a)"
aq_order(v, t, a, b) == IF v[t[b]] < v[t[a]] THEN swapped(t, b, a) ELSE t

\* the pivot swapped to its place pi after the scan s
aq_pivot_placed(s, pr) == [t |-> swapped(s.t, s.pi, pr - 1), pi |-> s.pi]

\* the pivot t[pm] parked at pr - 1, and the scan from pl and pr - 1
aq_pivot_scan(v, t, pl, pm, pr) ==
    aq_pivot_placed(aq_scan(v, swapped(t, pm, pr - 1), v[t[pm]], pl, pr - 1), pr)

\* the quicksort partition of t[pl..pr]: median of three, the pivot parked at
\* pr - 1, the scan, and the pivot swapped to its place pi
aq_median3(v, t, pl, pm, pr) ==
    aq_pivot_scan(v, aq_order(v, aq_order(v, aq_order(v, t, pl, pm), pm, pr), pl, pm),
                  pl, pm, pr)

aq_partition(v, t, pl, pr) == aq_median3(v, t, pl, pl + ((pr - pl) \div 2), pr)

\* the insertion sort of t[pl..pr]: an entry moves down past the entries
\* whose key is larger ("while (pj > pl && LT(vp, v[*pk]))"), so the range
\* ends ordered by key, entries with equal keys in the order they had
aq_insertion(v, t, pl, pr) ==
    LET before(m) == {j \in pl..pr : \/ v[t[j]] < v[t[m]]
                                      \/ (v[t[j]] = v[t[m]] /\ j < m)}
    IN  [k \in 1..Len(t) |->
            IF k < pl \/ k > pr THEN t[k]
            ELSE t[CHOOSE m \in pl..pr : Cardinality(before(m)) = k - pl]]

\* the larger child of the heap entry above j ("if (j < n && v[a[j]] <
\* v[a[j + 1]]) j += 1")
ah_child(v, a, j, n) == IF j < n /\ v[a[j]] < v[a[j + 1]] THEN j + 1 ELSE j

\* the sift-down loop of aheapsort ("for (i = .., j = ..; j <= n;)"): the
\* entry tmp sinks from place i below the children with a larger key
RECURSIVE ah_sift(_, _, _, _, _, _)
ah_sift_at(v, a, tmp, i, c, n) ==
    IF v[tmp] < v[a[c]] THEN ah_sift(v, [a EXCEPT ![i] = a[c]], tmp, c, c + c, n)
    ELSE [a EXCEPT ![i] = tmp]

ah_sift(v, a, tmp, i, j, n) ==
    IF j > n THEN [a EXCEPT ![i] = tmp]
    ELSE ah_sift_at(v, a, tmp, i, ah_child(v, a, j, n), n)

\* "for (l = n >> 1; l > 0; --l)": the heap is built from place hi down to lo
RECURSIVE ah_build(_, _, _, _, _)
ah_build_rest(v, a, lo, hi, n) == IF Len(a) = n THEN ah_build(v, a, lo, hi, n) ELSE a

ah_build(v, a, lo, hi, n) ==
    IF lo > hi THEN a
    ELSE IF lo = hi THEN ah_sift(v, a, a[lo], lo, lo + lo, n)
    ELSE ah_build_rest(v, ah_build(v, a, ((lo + hi) \div 2) + 1, hi, n),
                       lo, (lo + hi) \div 2, n)

\* "for (; n > 1;)": the largest entry goes to place m, the entry that was
\* there sinks from the top of the heap of the first m - 1 entries; for m
\* from hi down to lo
RECURSIVE ah_extract(_, _, _, _)
ah_extract_rest(v, a, lo, hi) == IF Len(a) >= hi THEN ah_extract(v, a, lo, hi) ELSE a

ah_extract(v, a, lo, hi) ==
    IF lo > hi THEN a
    ELSE IF lo = hi THEN ah_sift(v, [a EXCEPT ![lo] = a[1]], a[lo], 1, 2, lo - 1)
    ELSE ah_extract_rest(v, ah_extract(v, a, ((lo + hi) \div 2) + 1, hi),
                         lo, (lo + hi) \div 2)

\* aheapsort_ on the n entries a
ah_sorted(v, a, n) == ah_extract(v, ah_build(v, a, 1, n \div 2, n), 2, n)

\* the index array t with the range pl..pr replaced by the entries a
ah_stored(t, a, pl, pr) ==
    SubSeq([k \in 1..Len(t) |-> IF k < pl \/ k > pr THEN t[k] ELSE a[k - pl + 1]],
           1, Len(t))

\* aheapsort_(vv, pl, pr - pl + 1): numpy's argsort heapsort (npysort/heapsort)
\* of the range pl..pr of the index array t
aheapsort(v, t, pl, pr) ==
    IF pr <= pl THEN t
    ELSE ah_stored(t, ah_sorted(v, SubSeq(t, pl, pr), pr - pl + 1), pl, pr)

\* numpy's aquicksort (npysort/quicksort), one pass of its "while (1)" loop
\* after the other.  The state of the loop is the index array t, the range
\* pl..pr at hand with its remaining depth cdepth, the stack of the ranges
\* put aside (each with its depth), whether the range was popped and so
\* meets the test "if (cdepth < 0)" (top), and whether the stack was found
\* empty (done).
\* "stack_pop": the sort ends on an empty stack, else the next range at hand
\* is the one popped
aq_pop(t, stack) ==
    IF stack = <<>>
    THEN [t |-> t, pl |-> 1, pr |-> 1, cdepth |-> 0, stack |-> <<>>, top |-> TRUE,
          done |-> TRUE]
    ELSE [t |-> t, pl |-> stack[1][1], pr |-> stack[1][2], cdepth |-> stack[1][3],
          stack |-> Tail(stack), top |-> TRUE, done |-> FALSE]

\* after the partition part: the larger side is pushed with the depth
\* --cdepth, the inner "while" goes on with the smaller side
aq_push(part, pl, pr, cdepth, stack) ==
    IF part.pi - pl < pr - part.pi
    THEN [t |-> part.t, pl |-> pl, pr |-> part.pi - 1, cdepth |-> cdepth - 1,
          stack |-> <<<<part.pi + 1, pr, cdepth - 1>>>> \o stack, top |-> FALSE,
          done |-> FALSE]
    ELSE [t |-> part.t, pl |-> part.pi + 1, pr |-> pr, cdepth |-> cdepth - 1,
          stack |-> <<<<pl, part.pi - 1, cdepth - 1>>>> \o stack, top |-> FALSE,
          done |-> FALSE]

\* one pass: a popped range whose depth is used up is sorted by aheapsort; a
\* range with pr - pl > SMALL_QUICKSORT is partitioned; a shorter one is
\* insertion-sorted; after a sorted range comes the pop
aq_step(v, s) ==
    IF s.top /\ s.cdepth < 0
    THEN aq_pop(aheapsort(v, s.t, s.pl, s.pr), s.stack)
    ELSE IF s.pr - s.pl > SmallQuicksort
    THEN aq_push(aq_partition(v, s.t, s.pl, s.pr), s.pl, s.pr, s.cdepth, s.stack)
    ELSE aq_pop(SubSeq(aq_insertion(v, s.t, s.pl, s.pr), 1, Len(s.t)), s.stack)

\* at most n passes from the state s, stopping when the sort is done
RECURSIVE aq_run(_, _, _)
aq_run(v, s, n) ==
    IF s.done \/ n = 0 THEN s
    ELSE IF n = 1 THEN aq_step(v, s)
    ELSE aq_run(v, aq_run(v, s, n \div 2), n - (n \div 2))

\* aquicksort_(vv, tosort, num): every pass sorts a range or fixes a pivot,
\* so 2 * num + 1 passes end the sort
aquicksort(v, t, num) ==
    aq_run(v, [t |-> t, pl |-> 1, pr |-> num, cdepth |-> 2 * npy_get_msb(num),
               stack |-> <<>>, top |-> TRUE, done |-> FALSE], (2 * num) + 1).t

\* np.argsort(keys) with the default kind (numpy's aquicksort): the 1-based
\* positions in the order returned
np_argsort(keys) ==
    IF keys = <<>> THEN <<>>
    ELSE aquicksort(SubSeq(keys, 1, Len(keys)),
                    SubSeq([k \in 1..Len(keys) |-> k], 1, Len(keys)), Len(keys))

(***************************************************************************)
(* Stabilizer: ProcessFingerprintTemplateView.stabilize_template and the   *)
(* identical VerifyFingerprintView.stabilize_template                      *)
(***************************************************************************)
\* distances = np.sqrt((x - center_x)**2 + (y - center_y)**2).astype(int)
distances_from(points, center_x, center_y) ==
    [i \in 1..Len(points) |->
        ISqrt((points[i][1] - center_x) * (points[i][1] - center_x)
              + (points[i][2] - center_y) * (points[i][2] - center_y))]

\* center_x = int(np.median(points[:, 0])), center_y = int(np.median(points[:, 1]))
stabilize_distances(points) ==
    distances_from(points, MedianInt(Column(points, 1)), MedianInt(Column(points, 2)))

\* inliers = distances <= max_distance (positions of the retained points)
inliers_of(distances) == {i \in 1..Len(distances) : distances[i] <= MaxDistance}

stabilize_inliers(points) == inliers_of(stabilize_distances(points))

\* a padding point whose angle is reduced mod 360 instead of mod 256
pad_point_mod360(i) == <<300 + (i * 10), 300 + (i * 10), (i * 20) % 360>>

\* the padding point of index i: (300 + i*10, 300 + i*10, (i*20) % 256)
pad_point(i) == <<300 + (i * 10), 300 + (i * 10), (i * 20) % 256>>

\* a cut-off that keeps any of the points tied at the distance of the last
\* place
keep_closest_any_tied(points, inl) ==
    LET distances == stabilize_distances(points)
        sorted    == SortInts(Pick(distances, inl))
        cut       == sorted[K]
        must      == {i \in inl : distances[i] < cut}
        ties      == {i \in inl : distances[i] = cut}
    IN  {must \cup t : t \in {u \in SUBSET ties : Cardinality(u) = K - Cardinality(must)}}

\* sorted_indices[:target_count] of np.argsort(filtered_distances): the
\* positions of the target_count points that come first in the order
\* np.argsort gives the distances of the retained points (np_argsort fixes
\* the order of equal distances).  The result is the set of outcomes, of
\* which there is one.
keep_first(retained, sorted_indices) == {{retained[sorted_indices[k]] : k \in 1..K}}

keep_by_distance(distances, retained) ==
    keep_first(retained, np_argsort([k \in 1..Len(retained) |-> distances[retained[k]]]))

keep_closest(points, inl) == keep_by_distance(stabilize_distances(points), ascending(inl))

\* a stabilizer that omits the final sort
stabilize_unsorted(stable_points) == stable_points

\* stable_points.sort(key=lambda point: (point[0], point[1], point[2]))
stabilize_sort(stable_points) == SortPoints(stable_points)

\* the list stabilize_template(minutiae_points) returns, as the set of its
\* outcomes; inl is the set of positions of the inliers
stabilize_retained(points, inl) ==
    IF Cardinality(inl) > K
    THEN {stabilize_sort(Pick(points, kept)) : kept \in keep_closest(points, inl)}
    ELSE IF Cardinality(inl) < K
    THEN {stabilize_sort(Pick(points, inl)
                         \o [i \in 1..(K - Cardinality(inl)) |-> pad_point(i - 1)])}
    ELSE {stabilize_sort(Pick(points, inl))}

stabilize_template(points) ==
    IF points = <<>> THEN {<<>>}
    ELSE stabilize_retained(points, stabilize_inliers(points))

(***************************************************************************)
(* Template codec of the enrollment and verification handlers              *)
(***************************************************************************)
\* n.to_bytes(2, byteorder='big') for 0 <= n < 65536
Bytes2(n) == <<n \div 256, n % 256>>

\* the header the encoder writes, field by field (views.py lines 424-449)
iso_header ==
    <<70, 77, 82, 0>>              \* b"FMR\x00"
    \o <<0, 0, 0, 120>>            \* (120).to_bytes(4, 'big')
    \o Bytes2(1)                   \* version
    \o Bytes2(0)                   \* record length
    \o <<0>> \o <<0>>              \* capture equipment compliance, id
    \o Bytes2(500) \o Bytes2(500)  \* width, height
    \o Bytes2(500) \o Bytes2(500)  \* x resolution, y resolution
    \o <<1>>                       \* number of finger views
    \o <<1>> \o <<0>> \o <<1>> \o <<0>>   \* position, view, impression, quality
    \o <<K>>                       \* (40).to_bytes(1, 'big')

\* the six bytes written for one minutia by ProcessFingerprintTemplateView
encode_minutia(p) ==
    LET x_val     == Max2(0, Min2(MaxCoord, p[1]))
        y_val     == Max2(0, Min2(MaxCoord, p[2]))
        theta_val == p[3] % 256
    IN  <<(x_val \div 256) % 128, x_val % 256,
          (y_val \div 256) % 128, y_val % 256,
          theta_val % 256, 1>>

\* the six bytes written for one minutia by
\* VerifyFingerprintView.generate_iso_template_from_minutiae
encode_minutia_verify(p) ==
    LET x_val     == Min2(MaxCoord, Max2(0, Mask14(p[1])))
        y_val     == Min2(MaxCoord, Max2(0, Mask14(p[2])))
        theta_val == p[3] % 256
    IN  <<(x_val \div 256) % 128, x_val % 256,
          (y_val \div 256) % 128, y_val % 256,
          theta_val % 256, 1>>

encode_records(pts) == Flatten([i \in 1..Len(pts) |-> encode_minutia(pts[i])])

encode_records_verify(pts) == Flatten([i \in 1..Len(pts) |-> encode_minutia_verify(pts[i])])

\* the file written by "with open(iso_output, 'wb')": the header, one record
\* for each of stabilized_minutiae[:40], four zero bytes
write_iso(stabilized) ==
    iso_header \o encode_records(SubSeq(stabilized, 1, Min2(K, Len(stabilized))))
               \o <<0, 0, 0, 0>>

\* the size check and re-creation of views.py lines 478-500
fix_iso_size(template_data, stabilized) ==
    IF Len(template_data) /= ExpectedSize
    THEN LET slice(a, b) == SubSeq(template_data, a + 1, Min2(b, Len(template_data)))
             rec(i) == IF i < Len(stabilized)
                       THEN slice(32 + (i * 6), 32 + (i * 6) + 6)
                       ELSE <<0, 100, 0, 100, 0, 1>>
         IN  slice(0, 32) \o Flatten([i \in 1..K |-> rec(i - 1)])
    ELSE template_data

\* the template bytes the enrollment handler stores for a stabilized list
encode_iso(stabilized) == fix_iso_size(write_iso(stabilized), stabilized)

\* the template bytes generate_iso_template_from_minutiae produces
encode_iso_verify(stabilized) ==
    iso_header \o encode_records_verify(SubSeq(stabilized, 1, Min2(K, Len(stabilized))))
               \o <<0, 0, 0, 0>>

\* iso_data[j] with Python's 0-based index
ByteAt(iso_data, j) == iso_data[j + 1]

\* one decoded record at 0-based index idx: (x, y, theta)
decode_record(iso_data, idx) ==
    <<(Mask7(ByteAt(iso_data, idx)) * 256) + ByteAt(iso_data, idx + 1),
      (Mask7(ByteAt(iso_data, idx + 2)) * 256) + ByteAt(iso_data, idx + 3),
      ByteAt(iso_data, idx + 4)>>

\* extracted_minutiae of views.py lines 521-543: offset = 32,
\* minutiae_count = iso_data[offset-1]; record i is decoded when
\* idx + 6 <= len(iso_data), idx = offset + i*6 (the records that fit are the
\* first ones, so they are listed in order)
decode_records(iso_data, minutiae_count) ==
    LET fit == {i \in 0..(minutiae_count - 1) : (DecodeOffset + (i * 6)) + 6 <= Len(iso_data)}
    IN  [k \in 1..Cardinality(fit) |-> decode_record(iso_data, DecodeOffset + ((k - 1) * 6))]

extract_minutiae_from_template(iso_data) ==
    decode_records(iso_data, ByteAt(iso_data, DecodeOffset - 1))

\* the lines written to template.xyt: min(499, x), min(499, y), min(499, theta)
clamp_xyt(extracted) ==
    [i \in 1..Len(extracted) |->
        <<Min2(MaxCoord, extracted[i][1]), Min2(MaxCoord, extracted[i][2]),
          Min2(MaxCoord, extracted[i][3])>>]

\* min(499, max(0, x)), min(499, max(0, y)), theta % 180 as applied by the
\* verification and identification handlers after a decode
normalize_point(p) ==
    <<Min2(MaxCoord, Max2(0, p[1])), Min2(MaxCoord, Max2(0, p[2])), p[3] % MatcherAngleMod>>

normalize_points(pts) == [i \in 1..Len(pts) |-> normalize_point(pts[i])]

(***************************************************************************)
(* Coordinate/angle repair: fix_minutiae_coordinates                       *)
(***************************************************************************)
\* a repair that brings a full-circle angle into the matcher's domain by
\* halving it instead of reducing it mod 180
repair_point_halved(p) ==
    <<Min2(MaxCoord, Max2(0, Mask14(p[1]))),
      Min2(MaxCoord, Max2(0, Mask14(p[2]))),
      p[3] \div 2>>

\* fixed_x = min(499, max(0, x & 0x3FFF)), likewise y; fixed_theta = theta % 180
repair_point(p) ==
    <<Min2(MaxCoord, Max2(0, Mask14(p[1]))),
      Min2(MaxCoord, Max2(0, Mask14(p[2]))),
      p[3] % MatcherAngleMod>>

\* key of fixed_minutiae.sort: (m[0]-center_x)**2 + (m[1]-center_y)**2
center_distance2(m) ==
    ((m[1] - CenterXY) * (m[1] - CenterXY)) + ((m[2] - CenterXY) * (m[2] - CenterXY))

\* sort by distance from the centre (stable) and keep the first max_minutiae
optimize_minutiae_list(pts) ==
    LET sorted == Values(SortKeyed([i \in 1..Len(pts) |-> <<<<center_distance2(pts[i])>>, pts[i]>>]))
    IN  SubSeq(sorted, 1, Min2(K, Len(sorted)))

fix_minutiae_coordinates(minutiae_list) ==
    IF minutiae_list = <<>> THEN <<>>
    ELSE optimize_minutiae_list([i \in 1..Len(minutiae_list) |-> repair_point(minutiae_list[i])])

(***************************************************************************)
(* Multi-sample fuser: ProcessFingerprintTemplateView.fuse_minutiae_points *)
(***************************************************************************)
\* eps and min_samples of the DBSCAN clustering; eps squared for integer use
Eps == 12
MinSamples == 2

\* sin(d degrees) * 10^4, rounded, for d = 0..90
SinTab ==
    <<0, 175, 349, 523, 698, 872, 1045, 1219, 1392, 1564, 1736, 1908, 2079,
      2250, 2419, 2588, 2756, 2924, 3090, 3256, 3420, 3584, 3746, 3907, 4067, 4226,
      4384, 4540, 4695, 4848, 5000, 5150, 5299, 5446, 5592, 5736, 5878, 6018, 6157,
      6293, 6428, 6561, 6691, 6820, 6947, 7071, 7193, 7314, 7431, 7547, 7660, 7771,
      7880, 7986, 8090, 8192, 8290, 8387, 8480, 8572, 8660, 8746, 8829, 8910, 8988,
      9063, 9135, 9205, 9272, 9336, 9397, 9455, 9511, 9563, 9613, 9659, 9703, 9744,
      9781, 9816, 9848, 9877, 9903, 9925, 9945, 9962, 9976, 9986, 9994, 9998, 10000>>

\* np.sin(np.radians(d)) and np.cos(np.radians(d)), scaled by 10^4
SinDeg(d) ==
    LET a == d % 360
    IN  IF a <= 90 THEN SinTab[a + 1]
        ELSE IF a <= 180 THEN SinTab[(180 - a) + 1]
        ELSE IF a <= 270 THEN -SinTab[(a - 180) + 1]
        ELSE -SinTab[(360 - a) + 1]

CosDeg(d) == SinDeg(d + 90)

\* int(np.degrees(np.arctan2(sin_sum, cos_sum)) % 360).  The direction of
\* (cos_sum, sin_sum) is located between two whole degrees by the signs of
\* cross products, which gives the value whenever the exact mean is not a
\* whole degree.  When the exact mean is a whole degree d, the
\* floating-point result lies within rounding error of d and int()
\* truncates it to d or to d - 1 (for d = 0 the float "% 360" of a tiny
\* negative angle is 360.0 or just below it).  The call has one value for
\* its input, but the rounding of sin, cos and arctan2 decides which and
\* the source does not (in IEEE double arithmetic with the C library two
\* angles of 30 give 29.999999999999996, truncated to 29, and two angles of
\* 40 give 40.0); the result is therefore the set of values the expression
\* can have.  When the sums cancel, the direction is rounding noise.
calculate_circular_mean(angles) ==
    LET n       == Len(angles)
        sin_sum == SeqSum([i \in 1..n |-> SinDeg(angles[i])])
        cos_sum == SeqSum([i \in 1..n |-> CosDeg(angles[i])])
        tol     == 15000 * n
        ccw(d)  == (CosDeg(d) * sin_sum) - (SinDeg(d) * cos_sum)
        dot(d)  == (CosDeg(d) * cos_sum) + (SinDeg(d) * sin_sum)
        whole   == {d \in 0..359 : ccw(d) <= tol /\ ccw(d) >= -tol /\ dot(d) > 0}
        inside  == {d \in 0..359 : ccw(d) > tol /\ ccw(d + 1) < -tol /\ dot(d) > 0}
    IN  IF sin_sum <= n /\ sin_sum >= -n /\ cos_sum <= n /\ cos_sum >= -n
        THEN 0..360
        ELSE IF whole /= {}
        THEN UNION {IF d = 0 THEN {0, 359, 360} ELSE {d - 1, d} : d \in whole}
        ELSE inside

\* the lines of a file that carry at least three columns ("if len(parts) >= 3")
point_lines(lines) == SelectSeq(lines, LAMBDA line : Len(line) >= 3)

\* all_minutiae: the first three columns of the lines of every file, theta
\* % 256, sorted by (x, y, theta)
collect_minutiae(xyt_files) ==
    LET joined[k \in 0..Len(xyt_files)] ==
            IF k = 0 THEN <<>>
            ELSE joined[k - 1] \o
                 [i \in 1..Len(point_lines(xyt_files[k])) |->
                     <<point_lines(xyt_files[k])[i][1], point_lines(xyt_files[k])[i][2],
                       point_lines(xyt_files[k])[i][3] % 256>>]
    IN  SortPoints(joined[Len(xyt_files)])

\* the eps-neighbourhood of point i (the point itself included)
neighbours(all, i) ==
    {j \in 1..Len(all) :
        ((all[i][1] - all[j][1]) * (all[i][1] - all[j][1]))
        + ((all[i][2] - all[j][2]) * (all[i][2] - all[j][2])) <= Eps * Eps}

\* the points density-reachable from a set of core points
RECURSIVE expand_cluster(_, _)
expand_cluster(all, members) ==
    LET grown == members \cup UNION {neighbours(all, i) : i \in members}
    IN  IF grown = members THEN members ELSE expand_cluster(all, grown)

\* DBSCAN(eps=12, min_samples=2) on (x, y): with min_samples = 2 a point is a
\* core point exactly when another point lies within eps, so the clusters are
\* the connected groups of at least two points; the rest is noise (label -1)
dbscan_clusters(all) ==
    {expand_cluster(all, {i}) : i \in {j \in 1..Len(all) : Cardinality(neighbours(all, j)) >= MinSamples}}

\* the mean rounded to the nearest integer (a half rounded up), sum >= 0
MeanNearest(vals) == ((2 * SeqSum(vals)) + Len(vals)) \div (2 * Len(vals))

\* int(np.mean(column))
MeanInt(vals) == TruncDiv(SeqSum(vals), Len(vals))

\* the candidates for the fused point of one cluster
fuse_cluster(all, cluster) ==
    LET cluster_points == Pick(all, cluster)
        avg_x == MeanInt(Column(cluster_points, 1))
        avg_y == MeanInt(Column(cluster_points, 2))
    IN  {<<avg_x, avg_y, t>> : t \in calculate_circular_mean(Column(cluster_points, 3))}

RECURSIVE fuse_clusters(_, _)
fuse_clusters(all, clusters) ==
    IF clusters = {} THEN {<<>>}
    ELSE LET c == CHOOSE c \in clusters : TRUE
         IN  {<<p>> \o rest : p \in fuse_cluster(all, c),
                               rest \in fuse_clusters(all, clusters \ {c})}

\* the set of lists fuse_minutiae_points(xyt_paths) can return
fuse_minutiae_points(xyt_files) ==
    LET all == collect_minutiae(xyt_files)
    IN  IF all = <<>> THEN {<<>>}
        ELSE {SortPoints(f) : f \in fuse_clusters(all, dbscan_clusters(all))}

(***************************************************************************)
(* FingerprintProcessor.fuse_minutiae_points (fingerprint_processor.py)     *)
(***************************************************************************)
\* DBSCAN(eps=10, min_samples=2)
ProcessorEps == 10

\* all_minutiae: the lines of every file in the order read, the blank lines
\* skipped ("if line.strip():")
processor_all_minutiae(xyt_files) ==
    LET joined[k \in 0..Len(xyt_files)] ==
            IF k = 0 THEN <<>>
            ELSE joined[k - 1] \o SelectSeq(xyt_files[k], LAMBDA line : line /= <<>>)
    IN  joined[Len(xyt_files)]

\* the points within the distance eps of point i (the point itself included)
near(all, i, eps) ==
    {j \in 1..Len(all) :
        ((all[i][1] - all[j][1]) * (all[i][1] - all[j][1]))
        + ((all[i][2] - all[j][2]) * (all[i][2] - all[j][2])) <= eps * eps}

\* the points chained to the members by steps of at most eps
RECURSIVE reachable(_, _, _)
reachable(all, members, eps) ==
    LET grown == members \cup UNION {near(all, i, eps) : i \in members}
    IN  IF grown = members THEN members ELSE reachable(all, grown, eps)

\* the clusters DBSCAN(eps, min_samples=2) labels 0, 1, ...
chained_clusters(all, eps) ==
    {reachable(all, {i}, eps) : i \in {j \in 1..Len(all) : Cardinality(near(all, j, eps)) >= MinSamples}}

\* the orders in which "for cluster_id in unique_clusters" can visit a set
RECURSIVE orderings(_)
orderings(S) ==
    IF S = {} THEN {<<>>}
    ELSE UNION {{<<e>> \o rest : rest \in orderings(S \ {e})} : e \in S}

\* the fused points of the clusters visited in the given order
RECURSIVE processor_fuse_in_order(_, _)
processor_fuse_in_order(all, order) ==
    IF order = <<>> THEN {<<>>}
    ELSE {<<p>> \o rest : p \in fuse_cluster(all, Head(order)),
                          rest \in processor_fuse_in_order(all, Tail(order))}

\* "x, y, theta = map(int, line.split())" succeeds on every line that is
\* not blank: each has exactly three columns (any other count raises
\* ValueError)
processor_unpacks(xyt_files) ==
    \A k \in 1..Len(xyt_files) : \A i \in 1..Len(xyt_files[k]) :
        xyt_files[k][i] /= <<>> => Len(xyt_files[k][i]) = 3

\* the set of lists FingerprintProcessor.fuse_minutiae_points(xyt_paths) can
\* return: one point per cluster, then the noise points as they were read
processor_fuse_minutiae_points(xyt_files) ==
    LET all      == processor_all_minutiae(xyt_files)
        clusters == chained_clusters(all, ProcessorEps)
        noise    == {i \in 1..Len(all) : \A c \in clusters : i \notin c}
    IN  IF all = <<>> THEN {<<>>}
        ELSE {f \o Pick(all, noise) :
                f \in UNION {processor_fuse_in_order(all, o) : o \in orderings(clusters)}}

(***************************************************************************)
(* Canonicalizer and quantizer of ProcessFingerprintTemplateView           *)
(***************************************************************************)
\* centre on the integer mean and shift to (250, 250); theta is unchanged
canonicalize_minutiae(minutiae_points) ==
    IF minutiae_points = <<>> THEN <<>>
    ELSE LET center_x == MeanInt(Column(minutiae_points, 1))
             center_y == MeanInt(Column(minutiae_points, 2))
         IN  [i \in 1..Len(minutiae_points) |->
                 <<(minutiae_points[i][1] - center_x) + CenterXY,
                   (minutiae_points[i][2] - center_y) + CenterXY,
                   minutiae_points[i][3]>>]

\* Python round(a / b) for a >= 0, b > 0: round half to even
RoundHalfEven(a, b) ==
    LET q == a \div b
        r == a % b
    IN  IF 2 * r < b THEN q
        ELSE IF 2 * r > b THEN q + 1
        ELSE IF q % 2 = 0 THEN q ELSE q + 1

quantize_point(p) ==
    LET x_constrained == Max2(0, Min2(MaxCoord, p[1]))
        y_constrained == Max2(0, Min2(MaxCoord, p[2]))
        qx     == RoundHalfEven(x_constrained, 8) * 8
        qy     == RoundHalfEven(y_constrained, 8) * 8
        qtheta == (RoundHalfEven(p[3], 10) * 10) % 360
    IN  <<Max2(0, Min2(MaxCoord, qx)), Max2(0, Min2(MaxCoord, qy)), qtheta>>

quantize_minutiae(minutiae_points) ==
    [i \in 1..Len(minutiae_points) |-> quantize_point(minutiae_points[i])]

(***************************************************************************)
(* Canonicalizer and quantizer of VerifyFingerprintView                    *)
(***************************************************************************)
\* num_bins = 8: bins of 22.5 degrees over [0, 180)
NumBins == 8

\* np.clip(np.floor(angle / bin_size), 0, num_bins - 1) for 0 <= angle < 180
angle_bin(angle) == Max2(0, Min2(NumBins - 1, (2 * angle) \div 45))

\* four times (bin + 0.5) * bin_size, the centre of a bin
bin_center4(b) == (90 * b) + 45

\* np.argmin(bin_counts): the first bin (0-based) holding the least count
argmin_bin(bin_counts) ==
    CHOOSE b \in 0..(NumBins - 1) :
        /\ \A c \in 0..(NumBins - 1) : bin_counts[b + 1] <= bin_counts[c + 1]
        /\ \A c \in 0..(b - 1) : bin_counts[c + 1] > bin_counts[b + 1]

\* array[idx] = value
stored(array, idx, value) == [array EXCEPT ![idx] = value]

\* bin_counts[from_bin] -= 1; bin_counts[to_bin] += 1
moved_count(bin_counts, from_bin, to_bin) ==
    [bin_counts EXCEPT ![from_bin + 1] = @ - 1, ![to_bin + 1] = @ + 1]

\* bin_indices[np.argsort(distances_from_center)]: the positions idx in the
\* order np.argsort gives their keys, as the set of outcomes (one order)
in_order(bin_indices, order) == {[k \in 1..Len(order) |-> bin_indices[order[k]]]}

argsort_positions(keys, bin_indices) ==
    in_order(bin_indices, np_argsort([k \in 1..Len(bin_indices) |-> keys[bin_indices[k]]]))

argsort_orders(keys, idx) == argsort_positions(keys, ascending(idx))

\* one turn of the loop "for i, idx in enumerate(redistribute_indices)" (i
\* counts from 1; the loop's own i is i - 1).  The state st holds
\* redistributed_angles, angle_bins and bin_counts; a value stored into the
\* integer array is truncated.
redistribute_one(st, bin_idx, target_per_bin, idx, i) ==
    LET least      == argmin_bin(st.bin_counts)
        target_bin == IF st.bin_counts[least + 1] >= target_per_bin
                      THEN (bin_idx + ((i - 1) % NumBins)) % NumBins
                      ELSE least
        variation  == (((i - 1) % 5) - 2) * 2
        new_angle  == ((bin_center4(target_bin) + (4 * variation)) \div 4) % 180
    IN  [redistributed_angles |-> stored(st.redistributed_angles, idx, new_angle),
         angle_bins |-> stored(st.angle_bins, idx, target_bin),
         bin_counts |-> moved_count(st.bin_counts, bin_idx, target_bin)]

\* the turns lo..hi of that loop in order: the first half of them is carried
\* out (its bin_counts is the array of NumBins counts) and the second half
\* continues from the state it leaves
RECURSIVE redistribute_excess(_, _, _, _, _, _)
redistribute_excess(st, bin_idx, target_per_bin, redistribute_indices, lo, hi) ==
    IF lo > hi THEN st
    ELSE IF lo = hi
    THEN redistribute_one(st, bin_idx, target_per_bin, redistribute_indices[lo], lo)
    ELSE LET half == redistribute_excess(st, bin_idx, target_per_bin, redistribute_indices,
                                         lo, (lo + hi) \div 2)
         IN  IF Len(half.bin_counts) = NumBins
             THEN redistribute_excess(half, bin_idx, target_per_bin, redistribute_indices,
                                      ((lo + hi) \div 2) + 1, hi)
             ELSE half

\* the first pass, "for bin_idx in range(num_bins)", from bin_idx on: the
\* states it can end in
RECURSIVE first_pass(_, _, _, _)
first_pass(angles, st, bin_idx, target_per_bin) ==
    IF bin_idx = NumBins THEN {st}
    ELSE IF 2 * st.bin_counts[bin_idx + 1] > 3 * target_per_bin
    THEN LET bin_indices == {i \in 1..Len(angles) : st.angle_bins[i] = bin_idx}
             distances_from_center ==
                 [i \in 1..Len(angles) |->
                     IF (4 * angles[i]) >= bin_center4(bin_idx)
                     THEN (4 * angles[i]) - bin_center4(bin_idx)
                     ELSE bin_center4(bin_idx) - (4 * angles[i])]
         IN  UNION {first_pass(angles,
                               redistribute_excess(st, bin_idx, target_per_bin,
                                   SubSeq(sorted_indices, target_per_bin + 1, Len(sorted_indices)),
                                   1, Len(sorted_indices) - target_per_bin),
                               bin_idx + 1, target_per_bin) :
                        sorted_indices \in argsort_orders(distances_from_center, bin_indices)}
    ELSE first_pass(angles, st, bin_idx + 1, target_per_bin)

\* a second pass that moves nothing
second_pass_skipped(st, empty_bins, excess_bins, b) == st

\* the second pass, "for empty_bin in empty_bins", from bin b on
RECURSIVE second_pass(_, _, _, _)
second_pass(st, empty_bins, excess_bins, b) ==
    IF b = NumBins THEN st
    ELSE IF b \notin empty_bins \/ excess_bins = {} THEN second_pass(st, empty_bins, excess_bins, b + 1)
    ELSE LET source_bin == CHOOSE e \in excess_bins :
                               /\ \A f \in excess_bins : st.bin_counts[e + 1] >= st.bin_counts[f + 1]
                               /\ \A f \in excess_bins : f < e => st.bin_counts[f + 1] < st.bin_counts[e + 1]
             source_indices == {i \in 1..Len(st.angle_bins) : st.angle_bins[i] = source_bin}
         IN  IF source_indices = {} THEN second_pass(st, empty_bins, excess_bins, b + 1)
             ELSE LET move_idx == CHOOSE i \in source_indices : \A j \in source_indices : i <= j
                  IN  second_pass(
                          [redistributed_angles |->
                               stored(st.redistributed_angles, move_idx, bin_center4(b) \div 4),
                           angle_bins |-> stored(st.angle_bins, move_idx, b),
                           bin_counts |-> moved_count(st.bin_counts, source_bin, b)],
                          empty_bins, excess_bins, b + 1)

\* _preserve_angle_diversity(angles, original_angles) for integer angles:
\* the arrays it can return
preserve_angle_diversity(angles_in) ==
    LET angles         == [i \in 1..Len(angles_in) |-> angles_in[i] % 180]
        angle_bins     == [i \in 1..Len(angles) |-> angle_bin(angles[i])]
        target_per_bin == Max2(1, Len(angles) \div NumBins)
        bin_counts     == [b \in 1..NumBins |->
                              Cardinality({i \in 1..Len(angles) : angle_bins[i] = b - 1})]
        start          == [redistributed_angles |-> angles, angle_bins |-> angle_bins,
                           bin_counts |-> bin_counts]
    IN  {second_pass(st,
                     {b \in 0..(NumBins - 1) : st.bin_counts[b + 1] = 0},
                     {b \in 0..(NumBins - 1) : st.bin_counts[b + 1] > target_per_bin},
                     0).redistributed_angles :
            st \in first_pass(angles, start, 0, target_per_bin)}

\* VerifyFingerprintView.canonicalize_minutiae: centre as the enrollment
\* does, reduce theta mod 180 and redistribute the angles
canonicalize_minutiae_verify(minutiae_points) ==
    IF minutiae_points = <<>> THEN {<<>>}
    ELSE LET centred == canonicalize_minutiae(minutiae_points)
         IN  {[i \in 1..Len(centred) |-> <<centred[i][1], centred[i][2], a[i]>>] :
                 a \in preserve_angle_diversity([i \in 1..Len(centred) |-> centred[i][3] % 180])}

\* VerifyFingerprintView.quantize_minutiae for one point: the 14-bit mask,
\* the 8-pixel grid and the angle quantized with the position-based offset
\* (position_hash / 100.0 - 0.5) * 4 = (position_hash - 50) / 25
quantize_point_verify(p) ==
    LET x_constrained == Max2(0, Min2(MaxCoord, Mask14(p[1])))
        y_constrained == Max2(0, Min2(MaxCoord, Mask14(p[2])))
        qx            == RoundHalfEven(x_constrained, 8) * 8
        qy            == RoundHalfEven(y_constrained, 8) * 8
        position_hash == ((x_constrained * 31) + (y_constrained * 17)) % 100
        qtheta        == ((((25 * p[3]) + 75 + position_hash) \div 250) * 10) % 360
    IN  <<Max2(0, Min2(MaxCoord, qx)), Max2(0, Min2(MaxCoord, qy)), qtheta>>

quantize_minutiae_verify(minutiae_points) ==
    [i \in 1..Len(minutiae_points) |-> quantize_point_verify(minutiae_points[i])]

(***************************************************************************)
(* Point-list text.  A point-list file is a sequence of lines, a line the   *)
(* sequence of its whitespace-separated tokens (line.split()), a token a    *)
(* sequence of one-character strings.  A blank line is the empty sequence.  *)
(***************************************************************************)
Digits == <<"0", "1", "2", "3", "4", "5", "6", "7", "8", "9">>

\* the code points of the characters of Unicode whose decimal value is 0
\* (ASCII '0', Arabic-Indic zero, ..., full-width zero, ...); the nine
\* code points after each are its digits 1..9
DecimalZeros ==
    { 48, 1632, 1776, 1984, 2406, 2534, 2662, 2790, 2918, 3046, 3174, 3302, 3430, 3558,
      3664, 3792, 3872, 4160, 4240, 6112, 6160, 6470, 6608, 6784, 6800, 6992, 7088, 7232,
      7248, 42528, 43216, 43264, 43472, 43504, 43600, 44016, 65296, 66720, 68912, 69734,
      69872, 69942, 70096, 70384, 70736, 70864, 71248, 71360, 71472, 71904, 72016, 72784,
      73040, 73120, 92768, 92864, 93008, 120782, 120792, 120802, 120812, 120822, 123200,
      123632, 125264, 130032 }

\* the characters with the decimal value v: '0'..'9' under their own names,
\* a character beyond them under the name "#" and its code point
DecimalDigits ==
    [v \in 0..9 |-> {Digits[v + 1]} \cup {"#" \o ToString(z + v) : z \in DecimalZeros \ {48}}]

\* a character int() reads as a digit: any decimal digit of Unicode
IsDecimalDigit(c) == \E v \in 0..9 : c \in DecimalDigits[v]

\* the value int() gives a decimal digit
DigitValue(c) == CHOOSE v \in 0..9 : c \in DecimalDigits[v]

\* the code points, as ranges, of the characters that are digits without
\* being decimal digits (superscripts, subscripts, circled and parenthesized
\* digits, ...): str.isdigit() holds for them and int() rejects them
DigitOnlyRanges ==
    { <<178, 179>>, <<185, 185>>, <<4969, 4977>>, <<6618, 6618>>, <<8304, 8304>>,
      <<8308, 8313>>, <<8320, 8329>>, <<9312, 9320>>, <<9332, 9340>>, <<9352, 9360>>,
      <<9450, 9450>>, <<9461, 9469>>, <<9471, 9471>>, <<10102, 10110>>, <<10112, 10120>>,
      <<10122, 10130>>, <<68160, 68163>>, <<69216, 69224>>, <<69714, 69722>>,
      <<127232, 127242>> }

DigitOnlyChars == {"#" \o ToString(n) : n \in UNION {r[1]..r[2] : r \in DigitOnlyRanges}}

\* a character for which str.isdigit() holds: a decimal digit of any script
\* or one of the other digit characters
IsDigitChar(c) == IsDecimalDigit(c) \/ c \in DigitOnlyChars

\* str.isdigit(): non-empty and every character a digit
isdigit(s) == s /= <<>> /\ \A i \in 1..Len(s) : IsDigitChar(s[i])

\* p.replace('.', '', 1): the first '.' removed
replace_first_dot(p) ==
    LET dots == {i \in 1..Len(p) : p[i] = "."}
    IN  IF dots = {} THEN p
        ELSE LET k == CHOOSE i \in dots : \A j \in dots : i <= j
             IN  SubSeq(p, 1, k - 1) \o SubSeq(p, k + 1, Len(p))

\* p.lstrip('-'): every leading '-' removed
lstrip_dash(p) ==
    LET lead == {i \in 1..Len(p) : \A j \in 1..i : p[j] = "-"}
    IN  SubSeq(p, Cardinality(lead) + 1, Len(p))

\* the token test of _validate_xyt_data
token_ok(p) == isdigit(lstrip_dash(replace_first_dot(p)))

\* str(n) for an integer n
RECURSIVE digits_of(_)
digits_of(n) ==
    IF n < 10 THEN <<Digits[n + 1]>>
    ELSE Append(digits_of(n \div 10), Digits[(n % 10) + 1])

format_int(n) == IF n < 0 THEN <<"-">> \o digits_of(-n) ELSE digits_of(n)

\* the character '_' (byte 95), which int() accepts between two digits
IsUnderscore(c) == c \in {"_", "#95"}

\* int(t) succeeds: an optional sign followed by decimal digits of any
\* script, with single underscores allowed between digits (int('1_0') = 10)
is_int_literal(t) ==
    /\ t /= <<>>
    /\ LET d == IF t[1] \in {"-", "+"} THEN Tail(t) ELSE t
       IN  /\ d /= <<>>
           /\ IsDecimalDigit(d[1]) /\ IsDecimalDigit(d[Len(d)])
           /\ \A i \in 1..Len(d) : IsDecimalDigit(d[i]) \/ IsUnderscore(d[i])
           /\ \A i \in 1..(Len(d) - 1) : ~(IsUnderscore(d[i]) /\ IsUnderscore(d[i + 1]))

\* the value of the digits, the underscores between them skipped
RECURSIVE digits_value(_)
digits_value(d) ==
    IF d = <<>> THEN 0
    ELSE IF IsUnderscore(d[Len(d)]) THEN digits_value(SubSeq(d, 1, Len(d) - 1))
    ELSE (digits_value(SubSeq(d, 1, Len(d) - 1)) * 10) + DigitValue(d[Len(d)])

\* int(t) for a token on which int() succeeds
int_of(t) ==
    IF t[1] = "-" THEN -digits_value(Tail(t))
    ELSE IF t[1] = "+" THEN digits_value(Tail(t))
    ELSE digits_value(t)

\* the lines f"{x} {y} {theta}" written for a point list
xyt_lines(pts) ==
    [i \in 1..Len(pts) |-> <<format_int(pts[i][1]), format_int(pts[i][2]), format_int(pts[i][3])>>]

\* Bozorth3Matcher._validate_xyt_data on bytes that decode as text
validate_xyt_data(xyt_data) ==
    /\ xyt_data /= <<>>
    /\ \E i \in 1..Len(xyt_data) : xyt_data[i] /= <<>>
    /\ \A i \in 1..Len(xyt_data) :
          \/ xyt_data[i] = <<>>
          \/ /\ 3 <= Len(xyt_data[i])
             /\ Len(xyt_data[i]) <= 4
             /\ \A k \in 1..Len(xyt_data[i]) : token_ok(xyt_data[i][k])

\* the bytes for which str.isspace() holds after xyt_data.decode('latin-1')
WhitespaceBytes == {9, 10, 11, 12, 13, 28, 29, 30, 31, 32, 133, 160}

\* the character a byte decodes to: the digits, '+', '-', '.' and 'x' as
\* themselves, 'F', 'M', 'R' likewise, every other byte b as "#b"
decode_char(b) ==
    IF b \in 48..57 THEN Digits[b - 47]
    ELSE IF b = 43 THEN "+"
    ELSE IF b = 45 THEN "-"
    ELSE IF b = 46 THEN "."
    ELSE IF b = 70 THEN "F"
    ELSE IF b = 77 THEN "M"
    ELSE IF b = 82 THEN "R"
    ELSE IF b = 120 THEN "x"
    ELSE "#" \o ToString(b)

\* line.strip().split(): the maximal runs of non-whitespace bytes, decoded
split_tokens(line) ==
    LET starts   == {i \in 1..Len(line) :
                        /\ line[i] \notin WhitespaceBytes
                        /\ (i = 1 \/ line[i - 1] \in WhitespaceBytes)}
        start(k) == CHOOSE i \in starts : Cardinality({j \in starts : j < i}) = k - 1
        stop(i)  == CHOOSE e \in i..Len(line) :
                        /\ \A j \in i..e : line[j] \notin WhitespaceBytes
                        /\ (e = Len(line) \/ line[e + 1] \in WhitespaceBytes)
    IN  [k \in 1..Cardinality(starts) |->
            [j \in 1..((stop(start(k)) - start(k)) + 1) |-> decode_char(line[(start(k) + j) - 1])]]

\* the lines _validate_xyt_data examines for a bytes value that is not valid
\* UTF-8 (as every buffer that carries the encoder's header, whose bytes
\* 0xF4 0x01 are no UTF-8 sequence): xyt_data.decode('latin-1'), .strip(),
\* .split('\n'), and each line split into its tokens
bytes_as_lines(xyt_data) ==
    LET solid == {i \in 1..Len(xyt_data) : xyt_data[i] \notin WhitespaceBytes}
    IN  IF solid = {} THEN <<>>
        ELSE LET lo     == CHOOSE i \in solid : \A j \in solid : i <= j
                 hi     == CHOOSE i \in solid : \A j \in solid : i >= j
                 body   == SubSeq(xyt_data, lo, hi)
                 nl     == {i \in 1..Len(body) : body[i] = 10}
                 cut(k) == IF k = 0 THEN 0
                           ELSE IF k > Cardinality(nl) THEN Len(body) + 1
                           ELSE CHOOSE i \in nl : Cardinality({j \in nl : j < i}) = k - 1
             IN  [k \in 1..(Cardinality(nl) + 1) |->
                     split_tokens(SubSeq(body, cut(k - 1) + 1, cut(k) - 1))]

\* Bozorth3Matcher._ensure_binary_template for a bytes value: "Template is
\* already in binary format", the value is returned as it was given
ensure_binary_template(template_data) == template_data

(***************************************************************************)
(* Matcher adapter: Bozorth3Matcher.match_fingerprint_templates.  The run   *)
(* of the external scorer is described by a record                          *)
(*   [kind, returncode, stdout]:  kind "exit" (the process ended with the   *)
(*   return code and the tokens of its standard output), "missing" (the     *)
(*   executable cannot be started: FileNotFoundError) or "hang" (the        *)
(*   process never terminates).                                             *)
(***************************************************************************)
\* threshold=40, the default of the matcher and of the handlers
Threshold == 40

\* limit=5, the default number of matches returned
Limit == 5

VARIABLES
    threshold,      \* the threshold of the call: int(request.data.get('threshold', 40))
                    \* in the handlers, the keyword argument in the matcher
    limit           \* identification: int(request.data.get('limit', 5))

\* return {"match_score": 0, "is_match": False, "error": "Malformed ... XYT file"}
malformed_result(which) == [match_score |-> 0, is_match |-> FALSE, error |-> which]

\* return {"match_score": 0, "is_match": False}
default_result == [match_score |-> 0, is_match |-> FALSE]

\* return {"match_score": match_score, "is_match": match_score >= threshold}
score_result(match_score) == [match_score |-> match_score, is_match |-> match_score >= threshold]

\* the "except Exception as e" branch: the dictionary carries "error": str(e)
exception_result(e) == [match_score |-> 0, is_match |-> FALSE, error |-> e]

\* the validation of both inputs: the early return, if any (else <<>>)
match_early(probe_data, ref_data) ==
    IF ~validate_xyt_data(probe_data) THEN <<malformed_result("Malformed probe XYT file")>>
    ELSE IF ~validate_xyt_data(ref_data) THEN <<malformed_result("Malformed reference XYT file")>>
    ELSE <<>>

\* match_fingerprint_templates from the return (or the exception) of
\* subprocess.run(cmd, capture_output=True, text=True) to its own return
match_result(process) ==
    IF process.kind = "missing" THEN exception_result("[Errno 2] No such file or directory: 'bozorth3'")
    ELSE IF process.returncode /= 0 THEN default_result
    ELSE IF process.stdout /= <<>> /\ is_int_literal(process.stdout[1])
    THEN score_result(int_of(process.stdout[1]))
    ELSE default_result

(***************************************************************************)
(* Verification handler: VerifyFingerprintView.post                         *)
(***************************************************************************)
\* the points of the lines that have at least three tokens:
\* int(parts[0]), int(parts[1]), int(parts[2])
parse_xyt_points(lines) ==
    LET idx == {i \in 1..Len(lines) : Len(lines[i]) >= 3}
        pts == Pick(lines, idx)
    IN  [i \in 1..Len(pts) |-> <<int_of(pts[i][1]), int_of(pts[i][2]), int_of(pts[i][3])>>]

\* no int() of parse_xyt_points raises ValueError
parses_as_points(lines) ==
    \A i \in 1..Len(lines) :
        Len(lines[i]) >= 3 => \A k \in 1..3 : is_int_literal(lines[i][k])

\* generate_iso_template_from_minutiae(stabilized_minutiae) for a non-empty
\* list: the template bytes, the decoded records and the point-list text
\* (normalized when written, then read back and normalized again)
generate_iso_template_from_minutiae(stabilized_minutiae) ==
    LET bytes   == encode_iso_verify(stabilized_minutiae)
        decoded == extract_minutiae_from_template(bytes)
        first   == xyt_lines(normalize_points(decoded))
    IN  [iso_data |-> bytes,
         decoded  |-> decoded,
         xyt_data |-> xyt_lines(normalize_points(parse_xyt_points(first)))]

\* stored_template_data for a template supplied with the request (at least
\* 32 bytes long): decode at offset 32, normalize, order by reliability
supplied_reference(iso_template_data) ==
    xyt_lines(optimize_minutiae_list(
        normalize_points(extract_minutiae_from_template(iso_template_data))))

\* stored_template_data for the record's xyt_data: parsed, normalized and
\* ordered; the raw data when the parse raises
db_reference(stored_template_data_raw) ==
    IF parses_as_points(stored_template_data_raw)
    THEN xyt_lines(optimize_minutiae_list(
             normalize_points(parse_xyt_points(stored_template_data_raw))))
    ELSE stored_template_data_raw

\* the body of the 200 response built from match_result
verify_response(match_result_dict) ==
    [status |-> 200, match_score |-> match_result_dict.match_score,
     is_match |-> match_result_dict.is_match]

\* an error response with the given HTTP status
error_response(code) == [status |-> code]

(***************************************************************************)
(* Identification: IdentifyFingerprintView.post and                         *)
(* Bozorth3Matcher.identify_fingerprint.  A stored record is                *)
(* [id, has_template, iso_template, xyt_data]; has_template is FALSE for a  *)
(* record whose enrollment did not complete (both fields are NULL).         *)
(***************************************************************************)
\* the probe file the view writes: the extractor's lines parsed, normalized
\* and ordered by reliability
view_probe_file(probe_xyt_data) ==
    xyt_lines(optimize_minutiae_list(normalize_points(parse_xyt_points(probe_xyt_data))))

\* the minimal set used when no minutia could be extracted
fallback_minutiae == <<<<100, 100, 90>>, <<150, 150, 45>>, <<200, 200, 135>>>>

\* the gallery file the view writes for a stored template
view_gallery_file(iso_template) ==
    LET decoded == normalize_points(extract_minutiae_from_template(iso_template))
    IN  xyt_lines(optimize_minutiae_list(IF decoded = <<>> THEN fallback_minutiae ELSE decoded))

\* int(result.stdout.strip()) succeeds after subprocess.run(..., check=True)
run_scored(process) ==
    /\ process.kind = "exit"
    /\ process.returncode = 0
    /\ Len(process.stdout) = 1
    /\ is_int_literal(process.stdout[1])

\* the first record after position c that the view compares (0: none left)
next_candidate_view(records, c) ==
    LET rest == {i \in (c + 1)..Len(records) : records[i].has_template}
    IN  IF rest = {} THEN 0 ELSE CHOOSE i \in rest : \A j \in rest : i <= j

\* matches.sort(key=lambda x: x['match_score'], reverse=True): the list
\* 'matches' as the in-place sort leaves it
sort_matches(found) ==
    Values(SortKeyed([i \in 1..Len(found) |-> <<<<-found[i].match_score>>, found[i]>>]))

\* matches[:limit] of the sorted list
rank_matches(found) ==
    LET sorted == sort_matches(found)
    IN  \* a negative limit drops that many entries from the end
        SubSeq(sorted, 1, IF limit >= 0 THEN Min2(limit, Len(sorted))
                          ELSE Max2(0, Len(sorted) + limit))

\* the view's 200 response
identify_response(found, records) ==
    [status |-> 200, matches |-> rank_matches(found),
     match_count |-> Len(rank_matches(found)),
     total_matches_found |-> Len(found),
     threshold_used |-> threshold,
     templates_compared |-> Len(records)]

(***************************************************************************)
(* The other decoders of template bytes: FingerprintProcessor.              *)
(* parse_iso_template, extract_minutiae_from_iso of test_bozorth3_matching  *)
(* and the decodes inside the verification and identification handlers      *)
(***************************************************************************)
IMAGE_WIDTH == 500
IMAGE_HEIGHT == 550
MAX_MINUTIAE == 40

IMAGE_DPI == 96

\* n.to_bytes(2, 'little') and n.to_bytes(4, 'little')
Little2(n) == <<n % 256, (n \div 256) % 256>>
Little4(n) == <<n % 256, (n \div 256) % 256, (n \div 65536) % 256, (n \div 16777216) % 256>>

\* the 32-byte header of FingerprintProcessor.generate_iso_template
processor_header(minutiae) ==
    <<70, 77, 82, 0>>                              \* header[0:4]   b'FMR\0'
    \o <<32, 0, 0, 0>>                             \* header[4:8]   version
    \o Little4(32 + (Len(minutiae) * 6))           \* header[8:12]  total_length
    \o <<0, 0, 0, 0>>                              \* header[12:16]
    \o Little2(IMAGE_WIDTH) \o Little2(IMAGE_HEIGHT) \* header[16:20]
    \o <<0, 0, 0, 0>>                              \* header[20:24]
    \o Little2(IMAGE_DPI) \o Little2(IMAGE_DPI)    \* header[24:28]
    \o <<0, 0, 0>>                                 \* header[28:31]
    \o <<Min2(Len(minutiae), MAX_MINUTIAE)>>       \* header[31]

\* the six bytes of one record: x and y low byte first, theta % 180, quality
processor_record(p) == Little2(Mask14(p[1])) \o Little2(Mask14(p[2])) \o <<p[3] % 180, 0>>

processor_records(minutiae) ==
    Flatten([i \in 1..Len(minutiae) |-> processor_record(minutiae[i])])

\* FingerprintProcessor.generate_iso_template(minutiae)
generate_iso_template(minutiae) ==
    processor_header(minutiae)
    \o processor_records(SubSeq(minutiae, 1, Min2(MAX_MINUTIAE, Len(minutiae))))

\* int.from_bytes(iso_data[offset:offset+2], 'little') & 0x3FFF
little_endian14(iso_data, offset) ==
    Mask14(ByteAt(iso_data, offset) + (256 * ByteAt(iso_data, offset + 1)))

\* FingerprintProcessor.parse_iso_template: [] for fewer than 32 bytes and
\* for a buffer that does not start with b'FMR'; at most MAX_MINUTIAE records,
\* read until one does not fit
parse_iso_template(iso_data) ==
    IF Len(iso_data) < 32 THEN <<>>
    ELSE IF SubSeq(iso_data, 1, 3) /= <<70, 77, 82>> THEN <<>>
    ELSE LET minutiae_count == Min2(ByteAt(iso_data, 31), MAX_MINUTIAE)
             fit == {i \in 0..(minutiae_count - 1) : (32 + (i * 6)) + 6 <= Len(iso_data)}
         IN  [k \in 1..Cardinality(fit) |->
                <<Min2(Max2(little_endian14(iso_data, 32 + ((k - 1) * 6)), 0), IMAGE_WIDTH - 1),
                  Min2(Max2(little_endian14(iso_data, 34 + ((k - 1) * 6)), 0), IMAGE_HEIGHT - 1),
                  ByteAt(iso_data, 36 + ((k - 1) * 6)) % 180>>]

\* extract_minutiae_from_iso: the count is 0 for a buffer of at most 31
\* bytes; the decoded points are normalized and ordered by reliability
extract_minutiae_from_iso(iso_data) ==
    optimize_minutiae_list(normalize_points(decode_records(iso_data,
        IF Len(iso_data) > 31 THEN ByteAt(iso_data, DecodeOffset - 1) ELSE 0)))

\* minutiae_list of the verification handler for a supplied template of at
\* least 32 bytes, as converted to point lines
supplied_minutiae(iso_template_data) ==
    optimize_minutiae_list(normalize_points(extract_minutiae_from_template(iso_template_data)))

\* minutiae_list of the identification handler for a stored template of at
\* least 32 bytes, as written to the gallery file
gallery_minutiae(iso_data) ==
    LET decoded == normalize_points(extract_minutiae_from_template(iso_data))
    IN  optimize_minutiae_list(IF decoded = <<>> THEN fallback_minutiae ELSE decoded)

(***************************************************************************)
(* Bounds and input sets of the model                                      *)
(***************************************************************************)
\* most sample files in one enrollment request
MaxFiles == 2
\* most points beyond K, and fewest below K, in a directly stabilized list
MaxExtra == 2
\* most far-away points appended to a directly stabilized list
MaxOutliers == 2
\* most points in a short list given to the repair
MaxRepairLen == 2
\* most successive applications of the repair to one list
MaxRepairs == 2

\* minutiae as the extractor writes them (x, y, theta <= 499)
PtA  == <<100, 100, 90>>
PtA2 == <<104, 102, 90>>
PtB  == <<180, 80, 350>>
PtB2 == <<184, 84, 10>>
PtB3 == <<180, 80, 10>>
PtC  == <<60, 130, 45>>
PtD  == <<220, 100, 200>>
PtD2 == <<222, 101, 203>>

\* contents of the .xyt files of single samples
SampleFiles ==
    { <<PtA, PtB>>, <<PtA2, PtB2>>, <<PtA>>, <<PtA2, PtC>>,
      <<PtA, PtD>>, <<PtD2, PtA2, PtC>>, <<PtB>>, <<PtB3>> }

RECURSIVE SeqsUpTo(_, _)
SeqsUpTo(S, n) ==
    IF n = 0 THEN {<<>>}
    ELSE LET shorter == SeqsUpTo(S, n - 1)
         IN  shorter \cup {Append(q, e) : q \in {r \in shorter : Len(r) = n - 1}, e \in S}

\* what the handler obtains for one submitted sample: the point list
\* extract_minutiae returns ("extracted"), an exception of extract_minutiae
\* ("extract_error"), a call of extract_minutiae whose mindtct process never
\* ends ("never_returns": subprocess.run carries no timeout), an image that
\* cannot be decoded or normalized ("bad_image") or an entry without sample
\* data ("no_sample")
SampleOutcomes ==
    {[kind |-> "extracted", xyt |-> f] : f \in SampleFiles}
    \cup {[kind |-> k, xyt |-> <<>>] :
              k \in {"extract_error", "never_returns", "bad_image", "no_sample"}}

\* the handler calls extract_minutiae for the sample
calls_extractor(fp) == fp.kind \in {"extracted", "extract_error", "never_returns"}

\* the first sample after position i for which extract_minutiae is called
\* (0: the loop ends without another call)
next_extraction(fingerprints, i) ==
    LET rest == {j \in (i + 1)..Len(fingerprints) : calls_extractor(fingerprints[j])}
    IN  IF rest = {} THEN 0 ELSE CHOOSE j \in rest : \A k \in rest : j <= k

\* some call of extract_minutiae of the request never returns
extraction_hangs(fingerprints) ==
    \E i \in 1..Len(fingerprints) : fingerprints[i].kind = "never_returns"

EnrollInputs == SeqsUpTo(SampleOutcomes, MaxFiles) \ {<<>>}

\* n quantized points on the 8-pixel grid around the image centre
grid_points(n) ==
    [i \in 1..n |-> <<224 + (8 * ((i - 1) % 7)), 224 + (8 * ((i - 1) \div 7)),
                      (10 * ((i - 1) % 36))>>]

\* quantized points far from every grid point
far_points(o) ==
    [i \in 1..o |-> <<IF i % 2 = 1 THEN 0 ELSE 496, 8 * i, 170>>]

\* 41 positions on the 8-pixel grid relative to the centre (248, 248), in
\* the order of their distances from it, which all differ
DepthLimitOffsets ==
    << <<0, 0>>, <<-8, 0>>, <<-8, -8>>, <<0, 16>>, <<16, -16>>, <<0, -24>>, <<32, 0>>,
       <<-24, 24>>, <<-40, 0>>, <<32, 32>>, <<0, 48>>, <<0, -56>>, <<64, 0>>, <<48, -48>>,
       <<-72, 0>>, <<-56, 56>>, <<0, 80>>, <<0, -88>>, <<64, 64>>, <<96, 0>>, <<-72, -72>>,
       <<-104, 0>>, <<0, 112>>, <<80, -80>>, <<0, -120>>, <<-88, 88>>, <<128, 0>>,
       <<96, 96>>, <<-136, 0>>, <<0, 144>>, <<-104, -104>>, <<0, -152>>, <<112, -112>>,
       <<160, 0>>, <<-168, 0>>, <<-120, 120>>, <<0, 176>>, <<128, 128>>, <<0, -184>>,
       <<192, 0>>, <<-200, 0>> >>

\* for each place of a list of 41 points the rank of its distance (0: the
\* closest), an order on which np.argsort uses up its depth limit and sorts
\* a range by heapsort
DepthLimitRanks ==
    <<0, 22, 2, 40, 4, 38, 6, 39, 8, 37, 10, 36, 12, 35, 14, 34, 16, 33, 18, 32, 1, 3, 5,
      7, 9, 11, 13, 15, 17, 19, 21, 31, 30, 29, 28, 27, 26, 25, 24, 20, 23>>

\* K + 1 quantized inliers in that order
depth_limit_points ==
    [i \in 1..Len(DepthLimitRanks) |->
        <<248 + DepthLimitOffsets[DepthLimitRanks[i] + 1][1],
          248 + DepthLimitOffsets[DepthLimitRanks[i] + 1][2], (10 * (i - 1)) % 360>>]

StabilizeInputs ==
    {grid_points(n) \o far_points(o) : n \in (K - MaxExtra)..(K + MaxExtra), o \in 0..MaxOutliers}
    \cup {<<<<304, 8, 0>>>>, <<<<0, 0, 10>>, <<496, 496, 20>>>>,
          <<<<248, 256, 90>>, <<312, 248, 0>>, <<8, 496, 350>>>>, depth_limit_points}

\* n fused points at different positions, all with the angle theta
same_angle(n, theta) == [i \in 1..n |-> <<100 + (3 * i), 100 + (2 * i), theta>>]

\* n fused points whose angles are 0, 1, ..., n - 1
rising_angles(n) == [i \in 1..n |-> <<100 + (3 * i), 100 + (2 * i), i - 1>>]

\* fused lists given to canonicalize, quantize and stabilize: one angle for
\* all points, angles in two or six of the eight bins, fewer than eight
\* points, one point far from the others, points at the image corners
StageInputs ==
    { same_angle(8, 5), same_angle(9, 5), same_angle(K, 5), same_angle(K, 100),
      rising_angles(K), rising_angles(20), rising_angles(K + MaxExtra),
      [i \in 1..16 |-> <<50 + (20 * i), 400 - (10 * i),
                         <<0, 5, 10, 25, 30, 35, 50, 55, 60, 70, 75, 80, 95, 100, 105, 115>>[i]>>],
      <<<<100, 100, 90>>, <<150, 150, 45>>, <<200, 200, 135>>>>,
      <<<<0, 0, 10>>, <<0, 5, 20>>, <<0, 10, 30>>, <<5, 0, 40>>, <<499, 499, 50>>>>,
      <<<<0, 0, 350>>, <<490, 499, 200>>, <<499, 490, 94>>, <<499, 499, 255>>>>,
      <<<<4, 12, 5>>, <<20, 28, 15>>, <<36, 44, 25>>>>,
      <<<<0, 0, 10>>, <<498, 499, 40>>, <<499, 498, 30>>, <<499, 499, 20>>>> }

\* point-list files given to the fusers: a pair of close points and two
\* isolated ones, a chain with steps of 11, three points whose mean is not a
\* whole number, two clusters
FuseFiles ==
    { <<<<<<100, 100, 90>>, <<300, 300, 10>>>>, <<<<104, 100, 80>>, <<200, 50, 45>>>>>>,
      <<<<<<104, 100, 80>>, <<200, 50, 45>>>>, <<<<100, 100, 90>>, <<300, 300, 10>>>>>>,
      <<<<<<100, 100, 30>>, <<111, 100, 30>>, <<122, 100, 30>>>>>>,
      <<<<<<100, 100, 20>>, <<101, 101, 20>>>>, <<<<101, 100, 20>>>>>>,
      <<<<<<50, 60, 0>>, <<400, 410, 170>>>>, <<<<400, 415, 160>>, <<54, 63, 10>>>>>>,
      <<<<<<10, 10, 40>>, <<11, 10, 40>>>>>>,
      <<<<<<250, 250, 45>>>>>>,
      \* lines with the quality column mindtct writes, and a short line
      <<<<<<100, 100, 90, 55>>, <<300, 300, 10, 70>>>>, <<<<104, 100, 80, 61>>>>>>,
      <<<<<<100, 100, 90>>, <<200, 50>>>>, <<<<104, 100, 80>>>>>>,
      \* a blank line inside a file, and a file that starts with one
      <<<<<<100, 100, 90>>, <<>>, <<104, 100, 80>>>>>>,
      <<<<<<100, 100, 90>>>>, <<<<>>, <<104, 100, 80>>>>>> }

\* point lists given to the encoders: one point, K points, more than K
EncodeInputs ==
    {same_angle(n, 5) : n \in {1, 2, K - 1, K} \cup (K + 1)..(K + MaxExtra)}
    \cup {rising_angles(K)}

EncodeEntries == {"encode_view", "encode_verify", "encode_processor"}

\* raw triples, among them the out-of-domain values of simple_test.py
RepairPoints ==
    { <<25601, 300, 1>>, <<1, 310, 1>>, <<5121, 320, 1>>, <<10241, 330, 1>>,
      <<-1, 16384, -10>>, <<499, 500, 180>>, <<250, 250, 179>>, <<16883, 0, 359>> }

\* more than K raw triples, many at equal distance from the centre
long_raw_list(n) ==
    [i \in 1..n |-> <<(16384 * (i % 3)) + 240 + (10 * (i % 4)), 260 - (10 * (i % 5)),
                      (100 * i) - 500>>]

RepairInputs ==
    SeqsUpTo(RepairPoints, MaxRepairLen)
    \cup {long_raw_list(n) : n \in (K + 1)..(K + MaxExtra)}

\* lines of point-list text
LineGood   == <<<<"1", "2", "0">>, <<"8", "0">>, <<"4", "5">>>>                  \* "120 80 45"
LineGood4  == <<<<"3", "0", "0">>, <<"3", "1", "0">>, <<"1", "0">>, <<"5", "5">>>> \* "300 310 10 55"
LineFloat  == <<<<"1", "2", ".", "5">>, <<"-", "3">>, <<"7">>>>                  \* "12.5 -3 7"
LineX      == <<<<"1", "2">>, <<"x">>, <<"4", "0">>>>                            \* "12 x 40"
LineTwo    == <<<<"1", "2">>, <<"4", "0">>>>                                     \* "12 40"
LineFive   == <<<<"1">>, <<"2">>, <<"3">>, <<"4">>, <<"5">>>>                    \* "1 2 3 4 5"
LineDashes == <<<<"-", "-", "5">>, <<"1", "0">>, <<"2", "0">>>>                  \* "--5 10 20"
LineWide   == <<<<"1", "2", "0">>, <<"8", "0">>, <<"2", "0", "0">>>>             \* "120 80 200"
\* a first token in Arabic-Indic digits (code points 1633 and 1636: 14)
LineArabic == <<<<"#1633", "#1636">>, <<"8", "0">>, <<"4", "5">>>>

\* point lists given to match_fingerprint_templates
MatchTemplates ==
    { <<LineGood>>, <<LineGood, LineGood4>>, <<LineGood, <<>>, LineFloat>>,
      <<LineX>>, <<LineGood, LineX>>, <<LineTwo>>, <<LineFive, LineGood>>,
      <<LineDashes, LineGood>>, <<LineWide>>, <<LineArabic>>, <<>> }

\* the runs of the external scorer
ScorerBehaviours ==
    { [kind |-> "exit", returncode |-> 0, stdout |-> <<<<"5", "5">>>>],
      [kind |-> "exit", returncode |-> 0, stdout |-> <<<<"0">>>>],
      [kind |-> "exit", returncode |-> 0, stdout |-> <<<<"4", "_", "1">>>>],
      \* 42 in Arabic-Indic digits (code points 1636 and 1634)
      [kind |-> "exit", returncode |-> 0, stdout |-> <<<<"#1636", "#1634">>>>],
      [kind |-> "exit", returncode |-> 0, stdout |-> <<>>],
      [kind |-> "exit", returncode |-> 0, stdout |-> <<<<"x">>>>],
      [kind |-> "exit", returncode |-> 1, stdout |-> <<>>],
      [kind |-> "missing", returncode |-> 0, stdout |-> <<>>],
      [kind |-> "hang", returncode |-> 0, stdout |-> <<>>] }

\* no scorer process has been started
NoProcess == [kind |-> "none", returncode |-> 0, stdout |-> <<>>]

\* the 'fingerprints' field of a verification request; an empty list is
\* answered with 400 before anything is processed
VerifyInputs == EnrollInputs

\* stabilized lists of completed enrollments
EnrolledSets ==
    UNION {stabilize_template(q) :
              q \in { grid_points(K), <<<<248, 256, 90>>, <<312, 248, 0>>, <<8, 496, 350>>>>,
                      <<<<0, 0, 10>>, <<496, 496, 20>>>> }}

\* the record a completed enrollment of the stabilized list P stores
enroll_record(P) ==
    [has_template |-> TRUE,
     iso_template |-> encode_iso(P),
     xyt_data     |-> xyt_lines(clamp_xyt(extract_minutiae_from_template(encode_iso(P))))]

\* the record of an enrollment that failed: no template, no point list
failed_record == [has_template |-> FALSE, iso_template |-> <<>>, xyt_data |-> <<>>]

\* a stored record whose template is shorter than the 32 bytes the decoders
\* skip (its point list is empty)
short_record == [has_template |-> TRUE, iso_template |-> <<70, 77, 82, 0>>, xyt_data |-> <<>>]

StoredRecords == {enroll_record(P) : P \in EnrolledSets} \cup {failed_record, short_record}

\* most stored records in the database of an identification
MaxDb == 2

\* binary templates given to match_fingerprint_templates, as the lines its
\* validation sees in them
BinaryTemplates ==
    {bytes_as_lines(ensure_binary_template(encode_iso(P))) : P \in EnrolledSets}

\* the 'template' field of a verification request, base64-decoded
SuppliedTemplates ==
    {encode_iso(P) : P \in EnrolledSets} \cup {<<70, 77, 82, 0>>}

\* a 32-byte header with the given first four bytes and the count in byte 31
header32(magic, count) == magic \o [i \in 1..27 |-> 0] \o <<count>>

\* n six-byte records (x and y high byte first, angle, quality)
records6(n) ==
    [j \in 1..(6 * n) |->
        LET i == (j - 1) \div 6
            x == 100 + (7 * i)
            y == 300 - (5 * i)
        IN  CASE (j - 1) % 6 = 0 -> x \div 256
              [] (j - 1) % 6 = 1 -> x % 256
              [] (j - 1) % 6 = 2 -> y \div 256
              [] (j - 1) % 6 = 3 -> y % 256
              [] (j - 1) % 6 = 4 -> (50 * (i + 1)) % 256
              [] OTHER           -> 80]

FMR0 == <<70, 77, 82, 0>>

\* byte buffers handed to a decoder: well formed, with a wrong first or
\* fourth byte, truncated inside a record, declaring more records than
\* follow or than MAX_MINUTIAE, shorter than the header, and the templates
\* the enrollment stores
DecodeBuffers ==
    { header32(FMR0, 2) \o records6(2),
      header32(<<88, 77, 82, 0>>, 2) \o records6(2),
      header32(<<70, 77, 82, 32>>, 2) \o records6(2),
      header32(<<0, 0, 0, 0>>, 1) \o records6(1),
      header32(FMR0, 3) \o records6(2) \o <<0, 100, 1>>,
      header32(FMR0, 2),
      header32(<<88, 77, 82, 0>>, 2),
      header32(FMR0, 0),
      header32(FMR0, MAX_MINUTIAE + 1) \o records6(MAX_MINUTIAE + 1),
      SubSeq(header32(FMR0, 2), 1, 31),
      FMR0, <<70>>, <<>> }
    \cup {encode_iso(P) : P \in EnrolledSets}

DecodeEntries == {"decode_parse", "decode_test", "decode_supplied", "decode_gallery"}

\* point lists the feature extractor returns: x, y, theta at most 499
ExtractorOutputs ==
    { xyt_lines(<<<<120, 80, 200>>>>),
      xyt_lines(<<<<120, 80, 45>>, <<300, 310, 10>>, <<499, 0, 359>>>>) }

\* the fixed content written when extract_minutiae raises:
\* "100 100 90", "150 150 45", "200 200 135"
\* what extract_minutiae(temp_path, output_dir) does with the uploaded image
\* of an identification request: it returns the text of the xyt file, raises
\* (no xyt file, an unreadable image, a failed mindtct run) or never returns
UploadOutcomes ==
    {<<[kind |-> "extracted", xyt |-> t]>> : t \in ExtractorOutputs}
    \cup {<<[kind |-> k, xyt |-> <<>>]>> : k \in {"extract_error", "never_returns"}}

fallback_xyt_file == <<<<100, 100, 90>>, <<150, 150, 45>>, <<200, 200, 135>>>>

\* the loop "for idx, fp in enumerate(fingerprints)": the contents of the
\* files appended to xyt_paths, in the order of the samples
RECURSIVE sample_files(_)
sample_files(fingerprints) ==
    IF fingerprints = <<>> THEN <<>>
    ELSE LET fp == Head(fingerprints)
         IN  (IF fp.kind = "extracted" THEN <<fp.xyt>>
              ELSE IF fp.kind = "extract_error" THEN <<fallback_xyt_file>>
              ELSE <<>>) \o sample_files(Tail(fingerprints))

\* a digest computed from the rounded points in the order received
generate_template_hash_unsorted(minutiae_points) ==
    [i \in 1..Min2(K, Len(minutiae_points)) |->
        <<RoundHalfEven(minutiae_points[i][1], 2) * 2,
          RoundHalfEven(minutiae_points[i][2], 2) * 2,
          (RoundHalfEven(minutiae_points[i][3], 5) * 5) % 360>>]

\* generate_template_hash (the same text in both handlers): the points
\* rounded to 2 pixels and 5 degrees and sorted, at most 40 of them taken
\* around the middle.  The SHA-256 digest is represented by the list of
\* points whose text is hashed, "empty_template" by the empty list.
generate_template_hash(minutiae_points) ==
    LET normalized_points ==
            [i \in 1..Len(minutiae_points) |->
                <<RoundHalfEven(minutiae_points[i][1], 2) * 2,
                  RoundHalfEven(minutiae_points[i][2], 2) * 2,
                  (RoundHalfEven(minutiae_points[i][3], 5) * 5) % 360>>]
        sorted_points == SortPoints(normalized_points)
        n         == Len(sorted_points)
        mid_index == n \div 2
        radius    == K \div 2
        start0    == Max2(0, mid_index - radius)
        end0      == Min2(n, mid_index + radius)
        end       == IF start0 = 0 THEN K ELSE end0
        start     == IF end = n THEN n - K ELSE start0
    IN  IF n > K THEN SubSeq(sorted_points, start + 1, end) ELSE sorted_points

\* what the enrollment handler can produce for the submitted samples: the
\* stored template bytes and the template hash of every completed run
enrollment_templates(fingerprints) ==
    IF extraction_hangs(fingerprints) \/ sample_files(fingerprints) = <<>> THEN {}
    ELSE {[iso_template |-> encode_iso(st), template_hash |-> generate_template_hash(st)] :
            st \in UNION {stabilize_template(quantize_minutiae(canonicalize_minutiae(f))) :
                             f \in fuse_minutiae_points(sample_files(fingerprints))} \ {<<>>}}

\* the templates ('iso_template_base64' of the 201 response) a client gets
\* from enrolling the samples and then sends with its verification request
self_templates(fingerprints) == {t.iso_template : t \in enrollment_templates(fingerprints)}

(***************************************************************************)
(* State                                                                   *)
(***************************************************************************)
VARIABLES
    entry,          \* the entry point this behaviour exercises
    samples,        \* the 'fingerprints' of a request: the outcome for each sample
    sample_idx,     \* position of the sample whose extract_minutiae call is
                    \* running or ran last (0: none yet)
    pc,             \* "called", "extracting" (blocked in the subprocess.run
                    \* of extract_minutiae), "scoring" (blocked in the
                    \* subprocess.run of the scorer), "returned" or "raised"
                    \* (an exception left the call)
    xyt_files,      \* the contents of the files in xyt_paths
    fused,          \* enrollment: result of fuse_minutiae_points
    canonical,      \* the list canonicalize_minutiae returned
    quantized,      \* the list given to stabilize_template
    stabilized,     \* the list stabilize_template returned
    iso_data,       \* the template bytes generated
    extracted,      \* the records decoded from iso_data
    xyt_data,       \* enrollment: the point lines stored as xyt_data
    status,         \* enrollment: processing_status of the record
    error_message,  \* enrollment: error_message of the record ("" for NULL)
    repair_hist,    \* repair: the raw list followed by each repaired list
    probe,          \* the probe point list (as received or as generated)
    reference,      \* the reference point list given to the matcher
    template,       \* verification: the template supplied with the request
    db,             \* the stored records, in the order objects.all() lists them
    process,        \* the run of the scorer started by the last subprocess.run
    runs,           \* the <<probe file, gallery file>> pairs given to the scorer
    cand,           \* identification: position of the record being compared
    matches,        \* identification: the matches list
    result,         \* <<dictionary>> returned by match_fingerprint_templates
    files,          \* the temporary files and directories of the matcher and
                    \* of the identification calls that exist
    response        \* <<response>> of a handler, <<value>> returned by a function

enrollVars == <<samples, sample_idx, xyt_files, fused, canonical, quantized, stabilized, iso_data, extracted,
                xyt_data, status, error_message>>
matchVars  == <<probe, reference, template, db, threshold, limit, process, runs, cand, matches, result, files,
                response>>

vars == <<entry, pc, enrollVars, repair_hist, matchVars>>

\* nothing has been computed yet
EnrollIdle ==
    /\ fused = <<>> /\ canonical = <<>> /\ stabilized = <<>> /\ iso_data = <<>>
    /\ extracted = <<>> /\ xyt_data = <<>>

MatchIdle ==
    /\ process = NoProcess /\ runs = <<>> /\ cand = 0 /\ matches = <<>>
    /\ result = <<>> /\ files = {} /\ response = <<>>

\* the thresholds and limits of the requests and calls: the defaults, a
\* threshold above the scores the scorer prints here, a limit below the
\* number of matches found
Thresholds == {Threshold, 60}
Limits == {Limit, 1}

NoMatchInput ==
    /\ probe = <<>> /\ reference = <<>> /\ template = <<>> /\ db = <<>>
    /\ threshold = Threshold /\ limit = Limit

InitEnroll ==
    /\ entry \in {"enroll", "enroll_without_mindtct"}
    /\ pc = "called"
    /\ samples \in EnrollInputs /\ sample_idx = 0
    /\ xyt_files = <<>>
    /\ quantized = <<>> /\ status = "processing" /\ error_message = "" /\ repair_hist = <<>>
    /\ EnrollIdle /\ NoMatchInput /\ MatchIdle

InitStabilize ==
    /\ entry = "stabilize"
    /\ pc = "called"
    /\ quantized \in StabilizeInputs
    /\ samples = <<>> /\ sample_idx = 0 /\ xyt_files = <<>> /\ status = "none" /\ error_message = "" /\ repair_hist = <<>>
    /\ EnrollIdle /\ NoMatchInput /\ MatchIdle

InitRepair ==
    /\ entry = "repair"
    /\ pc = "called"
    /\ \E raw \in RepairInputs : repair_hist = <<raw>>
    /\ samples = <<>> /\ sample_idx = 0 /\ xyt_files = <<>> /\ quantized = <<>> /\ status = "none" /\ error_message = ""
    /\ EnrollIdle /\ NoMatchInput /\ MatchIdle

InitMatch ==
    /\ entry = "match"
    /\ pc = "called"
    /\ probe \in MatchTemplates \cup BinaryTemplates
    /\ reference \in MatchTemplates \cup BinaryTemplates
    /\ template = <<>> /\ db = <<>>
    /\ threshold \in Thresholds /\ limit = Limit
    /\ samples = <<>> /\ sample_idx = 0 /\ xyt_files = <<>> /\ quantized = <<>> /\ status = "none" /\ error_message = "" /\ repair_hist = <<>>
    /\ EnrollIdle /\ MatchIdle

InitVerify ==
    /\ pc = "called"
    /\ samples \in VerifyInputs /\ sample_idx = 0
    /\ threshold \in Thresholds /\ limit = Limit
    /\ \/ /\ entry = "verify_supplied"
          /\ template \in SuppliedTemplates \cup self_templates(samples)
          /\ db = <<>>
       \/ /\ entry = "verify_db"
          /\ template = <<>>
          /\ db \in {<<>>} \cup {<<enroll_record(P)>> : P \in EnrolledSets}
       \/ /\ entry \in {"verify_extract_only", "verify_without_mindtct"}
          /\ template = <<>>
          /\ db = <<>>
    /\ probe = <<>> /\ reference = <<>>
    /\ xyt_files = <<>> /\ quantized = <<>> /\ status = "none" /\ error_message = "" /\ repair_hist = <<>>
    /\ EnrollIdle /\ MatchIdle

InitIdentify ==
    /\ pc = "called"
    /\ \/ /\ entry = "identify_view"
          /\ samples \in UploadOutcomes
          /\ probe = <<>>
       \/ /\ entry = "identify_util"
          /\ samples = <<>>
          /\ probe \in ExtractorOutputs
    /\ sample_idx = 0
    /\ db \in SeqsUpTo(StoredRecords, MaxDb)
    /\ threshold \in Thresholds /\ limit \in Limits
    /\ reference = <<>> /\ template = <<>>
    /\ xyt_files = <<>> /\ quantized = <<>> /\ status = "none" /\ error_message = "" /\ repair_hist = <<>>
    /\ EnrollIdle /\ MatchIdle

InitStages ==
    /\ entry \in {"stages_enroll", "stages_verify"}
    /\ pc = "called"
    /\ fused \in StageInputs
    /\ canonical = <<>> /\ quantized = <<>> /\ stabilized = <<>> /\ iso_data = <<>>
    /\ extracted = <<>> /\ xyt_data = <<>>
    /\ samples = <<>> /\ sample_idx = 0 /\ xyt_files = <<>> /\ status = "none" /\ error_message = "" /\ repair_hist = <<>>
    /\ NoMatchInput /\ MatchIdle

InitEncode ==
    /\ entry \in EncodeEntries
    /\ pc = "called"
    /\ stabilized \in EncodeInputs
    /\ fused = <<>> /\ canonical = <<>> /\ quantized = <<>> /\ iso_data = <<>>
    /\ extracted = <<>> /\ xyt_data = <<>>
    /\ samples = <<>> /\ sample_idx = 0 /\ xyt_files = <<>> /\ status = "none" /\ error_message = "" /\ repair_hist = <<>>
    /\ NoMatchInput /\ MatchIdle

InitFuse ==
    /\ entry \in {"fuse_view", "fuse_processor"}
    /\ pc = "called"
    /\ xyt_files \in FuseFiles
    /\ samples = <<>> /\ sample_idx = 0 /\ quantized = <<>> /\ status = "none" /\ error_message = "" /\ repair_hist = <<>>
    /\ EnrollIdle /\ NoMatchInput /\ MatchIdle

InitDecode ==
    /\ entry \in DecodeEntries
    /\ pc = "called"
    /\ template \in DecodeBuffers
    /\ probe = <<>> /\ reference = <<>> /\ db = <<>>
    /\ threshold = Threshold /\ limit = Limit
    /\ samples = <<>> /\ sample_idx = 0 /\ xyt_files = <<>> /\ quantized = <<>> /\ status = "none" /\ error_message = "" /\ repair_hist = <<>>
    /\ EnrollIdle /\ MatchIdle

Init ==
    \/ InitEnroll \/ InitStabilize \/ InitRepair \/ InitMatch \/ InitVerify \/ InitIdentify
    \/ InitDecode \/ InitStages \/ InitFuse \/ InitEncode

(***************************************************************************)
(* Operations                                                              *)
(***************************************************************************)
\* Response(output_serializer.data, status=status.HTTP_201_CREATED)
created_response == [status |-> 201]

\* an except handler that answers 500 and leaves the record as it is
record_failure_unsaved(e) ==
    /\ UNCHANGED <<status, error_message>>
    /\ response' = <<error_response(500)>>

\* "except Exception as e": processing_status = 'failed', error_message =
\* str(e), save(), and the 500 response
record_failure(e) ==
    /\ status' = "failed"
    /\ error_message' = e
    /\ response' = <<error_response(500)>>

\* the row FingerprintTemplate.objects.create(...) adds: processing_status
\* 'processing', no template and no point list yet
created_record == [has_template |-> FALSE, iso_template |-> <<>>, xyt_data |-> <<>>]

\* ProcessFingerprintTemplateView.post after the sample loop, the files in
\* paths collected and the rows of the table being rows: fusion,
\* canonicalization, quantization, stabilization, encoding, the update of
\* the record and the response
enroll_finish(paths, rows) ==
    /\ xyt_files' = paths
    /\ pc' = "returned"
    /\ IF paths = <<>>
       THEN /\ record_failure("Failed to extract minutiae from any fingerprints")
            /\ db' = rows
            /\ UNCHANGED <<fused, canonical, quantized, stabilized, iso_data, extracted,
                           xyt_data>>
       ELSE \E f \in fuse_minutiae_points(paths) :
            \E st \in stabilize_template(quantize_minutiae(canonicalize_minutiae(f))) :
               /\ fused' = f
               /\ canonical' = canonicalize_minutiae(f)
               /\ quantized' = quantize_minutiae(canonicalize_minutiae(f))
               /\ stabilized' = st
               /\ IF st = <<>>
                  THEN /\ record_failure("Template fusion process resulted in no usable minutiae points")
                       /\ db' = rows
                       /\ UNCHANGED <<iso_data, extracted, xyt_data>>
                  ELSE /\ iso_data' = encode_iso(st)
                       /\ extracted' = extract_minutiae_from_template(encode_iso(st))
                       /\ xyt_data' = clamp_xyt(extract_minutiae_from_template(encode_iso(st)))
                       /\ status' = "completed"
                       /\ error_message' = error_message
                       /\ db' = [rows EXCEPT ![Len(rows)] = enroll_record(st)]
                       /\ response' = <<created_response>>

\* ProcessFingerprintTemplateView.post for a valid request, from the
\* creation of the record to the first call of extract_minutiae (which
\* waits for mindtct in a subprocess.run without timeout) or, when no
\* sample reaches that call, to the response
EnrollPost ==
    /\ entry \in {"enroll", "enroll_without_mindtct"}
    /\ pc = "called"
    /\ LET rows  == Append(db, created_record)
           first == next_extraction(samples, 0)
       IN  IF entry = "enroll_without_mindtct"
           THEN \* shutil.which('mindtct') is None
                /\ record_failure("NBIS tool 'mindtct' is not available in the system PATH")
                /\ db' = rows
                /\ pc' = "returned"
                /\ UNCHANGED <<sample_idx, xyt_files, fused, canonical, quantized, stabilized,
                               iso_data, extracted, xyt_data>>
           ELSE IF first = 0
           THEN /\ enroll_finish(<<>>, rows)
                /\ UNCHANGED sample_idx
           ELSE /\ sample_idx' = first
                /\ db' = rows
                /\ pc' = "extracting"
                /\ UNCHANGED <<xyt_files, fused, canonical, quantized, stabilized, iso_data,
                               extracted, xyt_data, status, error_message, response>>
    /\ UNCHANGED <<entry, samples, repair_hist, probe, reference, template, threshold, limit,
                   process, runs, cand, matches, result, files>>

\* the call of extract_minutiae for sample sample_idx returns or raises
\* (mindtct has ended): the xyt file or the fallback file is appended to
\* xyt_paths and the loop goes on to the next call of extract_minutiae or,
\* after the last sample, post() runs to its response
EnrollExtracted ==
    /\ entry = "enroll"
    /\ pc = "extracting"
    /\ samples[sample_idx].kind /= "never_returns"
    /\ LET next == next_extraction(samples, sample_idx)
       IN  IF next = 0
           THEN /\ enroll_finish(sample_files(samples), db)
                /\ UNCHANGED sample_idx
           ELSE /\ sample_idx' = next
                /\ xyt_files' = sample_files(SubSeq(samples, 1, sample_idx))
                /\ UNCHANGED <<pc, db, fused, canonical, quantized, stabilized, iso_data,
                               extracted, xyt_data, status, error_message, response>>
    /\ UNCHANGED <<entry, samples, repair_hist, probe, reference, template, threshold, limit,
                   process, runs, cand, matches, result, files>>

\* a call of stabilize_template(minutiae_points)
StabilizeCall ==
    /\ entry = "stabilize"
    /\ pc = "called"
    /\ stabilized' \in stabilize_template(quantized)
    /\ pc' = "returned"
    /\ UNCHANGED <<entry, samples, sample_idx, xyt_files, fused, canonical, quantized, iso_data, extracted,
                   xyt_data, status, error_message, repair_hist, matchVars>>

\* a call of fix_minutiae_coordinates on the list the previous call returned
RepairCall ==
    /\ entry = "repair"
    /\ Len(repair_hist) <= MaxRepairs
    /\ repair_hist' = Append(repair_hist, fix_minutiae_coordinates(repair_hist[Len(repair_hist)]))
    /\ pc' = "returned"
    /\ UNCHANGED <<entry, enrollVars, matchVars>>

\* match_fingerprint_templates(probe, reference) up to its early return or
\* to the call of subprocess.run (which carries no timeout)
MatchCall ==
    /\ entry = "match"
    /\ pc = "called"
    /\ IF match_early(probe, reference) /= <<>>
       THEN /\ result' = match_early(probe, reference)
            /\ pc' = "returned"
            /\ UNCHANGED <<runs, process, files>>
       ELSE /\ runs' = Append(runs, <<probe, reference>>)
            /\ process' \in ScorerBehaviours
            /\ files' = {"temp_dir"}
            /\ pc' = "scoring"
            /\ UNCHANGED result
    /\ UNCHANGED <<entry, enrollVars, repair_hist, probe, reference, template, db, threshold, limit,
                   cand, matches, response>>

\* Response({'extracted_template': {...}}) of the extract_only mode
extracted_response == [status |-> 200, processing_status |-> "extracted"]

\* VerifyFingerprintView.post after the sample loop, the files in paths
\* collected: fusion, canonicalization, quantization, stabilization and
\* encoding, then the extract_only response or the reference lookup, up to
\* the response or to the call of subprocess.run inside the matcher
verify_finish(paths) ==
    /\ xyt_files' = paths
    /\ IF paths = <<>>
       THEN \* raise Exception(...), answered by the handler's except with 500
            /\ response' = <<error_response(500)>>
            /\ pc' = "returned"
            /\ UNCHANGED <<fused, canonical, quantized, stabilized, iso_data, extracted,
                           probe, reference, result, runs, process, files>>
       ELSE \E f \in fuse_minutiae_points(paths) :
            \E c \in canonicalize_minutiae_verify(f) :
            \E st \in stabilize_template(quantize_minutiae_verify(c)) :
              /\ fused' = f
              /\ canonical' = c
              /\ quantized' = quantize_minutiae_verify(c)
              /\ stabilized' = st
              /\ IF st = <<>>
                 THEN \* raise Exception(...), answered with 500
                      /\ response' = <<error_response(500)>>
                      /\ pc' = "returned"
                      /\ UNCHANGED <<iso_data, extracted, probe, reference, result,
                                     runs, process, files>>
                 ELSE LET vt    == generate_iso_template_from_minutiae(st)
                          given == entry = "verify_supplied"
                          known == IF given THEN Len(template) >= DecodeOffset ELSE db /= <<>>
                          ref   == IF given THEN supplied_reference(template)
                                   ELSE db_reference(db[1].xyt_data)
                          early == match_early(vt.xyt_data, ref)
                      IN  /\ iso_data' = vt.iso_data
                          /\ extracted' = vt.decoded
                          /\ probe' = vt.xyt_data
                          /\ IF entry = "verify_extract_only"
                             THEN /\ response' = <<extracted_response>>
                                  /\ pc' = "returned"
                                  /\ UNCHANGED <<reference, result, runs, process, files>>
                             ELSE IF ~known
                             THEN \* 'Invalid ISO template format' / DoesNotExist
                                  /\ response' = <<error_response(IF given THEN 400 ELSE 404)>>
                                  /\ pc' = "returned"
                                  /\ UNCHANGED <<reference, result, runs, process, files>>
                             ELSE IF early /= <<>>
                             THEN /\ reference' = ref
                                  /\ result' = early
                                  /\ response' = <<verify_response(early[1])>>
                                  /\ pc' = "returned"
                                  /\ UNCHANGED <<runs, process, files>>
                             ELSE /\ reference' = ref
                                  /\ runs' = Append(runs, <<vt.xyt_data, ref>>)
                                  /\ process' \in ScorerBehaviours
                                  /\ files' = {"temp_dir"}
                                  /\ pc' = "scoring"
                                  /\ UNCHANGED <<result, response>>

\* VerifyFingerprintView.post after the request validation, up to the first
\* call of extract_minutiae (which waits for mindtct in a subprocess.run
\* without timeout) or, when no sample reaches that call, to the response
VerifyPost ==
    /\ entry \in {"verify_supplied", "verify_db", "verify_extract_only", "verify_without_mindtct"}
    /\ pc = "called"
    /\ LET first == next_extraction(samples, 0)
       IN  IF entry = "verify_without_mindtct"
           THEN \* shutil.which('mindtct') is None: raise Exception(...),
                \* answered by the handler's except with 500
                /\ response' = <<error_response(500)>>
                /\ pc' = "returned"
                /\ UNCHANGED <<sample_idx, xyt_files, fused, canonical, quantized, stabilized,
                               iso_data, extracted, probe, reference, result, runs, process,
                               files>>
           ELSE IF first = 0
           THEN /\ verify_finish(<<>>)
                /\ UNCHANGED sample_idx
           ELSE /\ sample_idx' = first
                /\ pc' = "extracting"
                /\ UNCHANGED <<xyt_files, fused, canonical, quantized, stabilized, iso_data,
                               extracted, probe, reference, result, runs, process, files,
                               response>>
    /\ UNCHANGED <<entry, samples, xyt_data, status, error_message, repair_hist,
                   template, db, threshold, limit, cand, matches>>

\* the call of extract_minutiae for sample sample_idx returns or raises
\* (mindtct has ended): the loop goes on to the next call or, after the
\* last sample, post() runs on
VerifyExtracted ==
    /\ entry \in {"verify_supplied", "verify_db", "verify_extract_only"}
    /\ pc = "extracting"
    /\ samples[sample_idx].kind /= "never_returns"
    /\ LET next == next_extraction(samples, sample_idx)
       IN  IF next = 0
           THEN /\ verify_finish(sample_files(samples))
                /\ UNCHANGED sample_idx
           ELSE /\ sample_idx' = next
                /\ xyt_files' = sample_files(SubSeq(samples, 1, sample_idx))
                /\ UNCHANGED <<pc, fused, canonical, quantized, stabilized, iso_data,
                               extracted, probe, reference, result, runs, process, files,
                               response>>
    /\ UNCHANGED <<entry, samples, xyt_data, status, error_message, repair_hist,
                   template, db, threshold, limit, cand, matches>>

\* the scorer process started by match_fingerprint_templates ends (or could
\* not be started): the rest of match_fingerprint_templates and, in the
\* verification handler, the response
MatchReturn ==
    /\ entry \in {"match", "verify_supplied", "verify_db"}
    /\ pc = "scoring"
    /\ process.kind /= "hang"
    /\ result' = <<match_result(process)>>
    /\ response' = IF entry = "match" THEN response
                   ELSE <<verify_response(match_result(process))>>
    /\ files' = {}
    /\ pc' = "returned"
    /\ UNCHANGED <<entry, enrollVars, repair_hist, probe, reference, template, db, threshold, limit,
                   process, runs, cand, matches>>

\* IdentifyFingerprintView.post: the loop "for template in templates" resumed
\* after position c with the matches found so far
view_continue(probe_xyt_data, c, found) ==
    LET n == next_candidate_view(db, c)
    IN  IF n = 0
        THEN \* the list is sorted in place and answered; finally:
             \* os.unlink(temp_path), shutil.rmtree(output_dir)
             /\ matches' = sort_matches(found)
             /\ response' = <<identify_response(found, db)>>
             /\ pc' = "returned"
             /\ cand' = c
             /\ files' = {}
             /\ UNCHANGED <<runs, process>>
        ELSE IF Len(db[n].iso_template) < DecodeOffset
        THEN \* iso_data[offset-1]: IndexError outside the loop's try, answered
             \* by the handler's except with 500
             /\ matches' = found
             /\ response' = <<error_response(500)>>
             /\ pc' = "returned"
             /\ cand' = n
             /\ files' = {}
             /\ UNCHANGED <<runs, process>>
        ELSE /\ runs' = Append(runs, <<view_probe_file(probe_xyt_data), view_gallery_file(db[n].iso_template)>>)
             /\ process' \in ScorerBehaviours
             /\ cand' = n
             /\ files' = {"temp_path", "output_dir"}
             /\ pc' = "scoring"
             /\ matches' = found
             /\ UNCHANGED response

\* IdentifyFingerprintView.post for a request with a 'fingerprint' file, up to
\* the call of extract_minutiae(temp_path, output_dir): the upload is saved
\* to a temporary .png and the directory is made, then the handler waits
\* for mindtct
IdentifyViewPost ==
    /\ entry = "identify_view"
    /\ pc = "called"
    /\ sample_idx' = 1
    /\ files' = {"temp_path", "output_dir"}
    /\ pc' = "extracting"
    /\ UNCHANGED <<entry, samples, xyt_files, fused, canonical, quantized, stabilized, iso_data,
                   extracted, xyt_data, status, error_message, repair_hist, probe, reference,
                   template, db, threshold, limit, process, runs, cand, matches, result,
                   response>>

\* extract_minutiae returns or raises: the view goes on to its response or to
\* the first subprocess.run(['bozorth3', probe, gallery], check=True)
IdentifyViewExtracted ==
    /\ entry = "identify_view"
    /\ pc = "extracting"
    /\ samples[sample_idx].kind /= "never_returns"
    /\ IF samples[sample_idx].kind = "extract_error"
       THEN \* answered by the handler's except with 500; finally removes
            \* temp_path and output_dir
            /\ response' = <<error_response(500)>>
            /\ pc' = "returned"
            /\ files' = {}
            /\ UNCHANGED <<probe, runs, process, cand, matches>>
       ELSE /\ probe' = samples[sample_idx].xyt
            /\ IF ~parses_as_points(samples[sample_idx].xyt)
               THEN \* ValueError of int(), answered by the handler's except with 500
                    /\ response' = <<error_response(500)>>
                    /\ pc' = "returned"
                    /\ files' = {}
                    /\ UNCHANGED <<runs, process, cand, matches>>
               ELSE view_continue(samples[sample_idx].xyt, 0, matches)
    /\ UNCHANGED <<entry, enrollVars, repair_hist, reference, template, db, threshold, limit,
                   result>>

\* the scorer run of the view ends: a score reaching the threshold is
\* appended (twice, lines 1021 and 1023), any exception is logged, and the
\* loop goes on
IdentifyViewScored ==
    /\ entry = "identify_view"
    /\ pc = "scoring"
    /\ process.kind /= "hang"
    /\ LET hit   == run_scored(process) /\ int_of(process.stdout[1]) >= threshold
           info  == [template_id |-> cand, match_score |-> int_of(process.stdout[1])]
           found == IF hit THEN matches \o <<info, info>> ELSE matches
       IN  view_continue(probe, cand, found)
    /\ UNCHANGED <<entry, enrollVars, repair_hist, probe, reference, template, db, threshold, limit, result>>

\* Bozorth3Matcher.identify_fingerprint: the loop resumed after position c
util_continue(c, found) ==
    IF c = Len(db)
    THEN \* the list is sorted in place and returned; finally:
         \* os.unlink(probe_path)
         /\ matches' = sort_matches(found)
         /\ response' = <<[matches |-> rank_matches(found)]>>
         /\ pc' = "returned"
         /\ cand' = c
         /\ files' = {}
         /\ UNCHANGED <<runs, process>>
    ELSE IF ~db[c + 1].has_template
    THEN \* gallery_file.write(None): TypeError leaves the function before
         \* gallery_path is assigned and the inner try is entered; the outer
         \* finally unlinks the probe file only
         /\ pc' = "raised"
         /\ cand' = c + 1
         /\ files' = {"gallery_file"}
         /\ UNCHANGED <<runs, process, response, matches>>
    ELSE /\ runs' = Append(runs, <<probe, db[c + 1].xyt_data>>)
         /\ process' \in ScorerBehaviours
         /\ cand' = c + 1
         /\ files' = {"probe_file", "gallery_file"}
         /\ pc' = "scoring"
         /\ UNCHANGED <<response, matches>>

\* identify_fingerprint(probe_template_data) up to its return or to the
\* first subprocess.run(['bozorth3', probe, gallery], check=True)
IdentifyUtilCall ==
    /\ entry = "identify_util"
    /\ pc = "called"
    /\ util_continue(0, matches)
    /\ UNCHANGED <<entry, enrollVars, repair_hist, probe, reference, template, db, threshold, limit,
                   result>>

\* the scorer run of identify_fingerprint ends: FileNotFoundError,
\* CalledProcessError and the ValueError of int() leave the function, and so
\* does a score reaching the threshold: the dictionary built for it reads
\* template.user_id, an attribute FingerprintTemplate does not have
\* (AttributeError), so nothing is appended
IdentifyUtilScored ==
    /\ entry = "identify_util"
    /\ pc = "scoring"
    /\ process.kind /= "hang"
    /\ IF ~run_scored(process) \/ int_of(process.stdout[1]) >= threshold
       THEN \* both finally clauses unlink their file
            /\ pc' = "raised"
            /\ files' = {}
            /\ UNCHANGED <<runs, process, cand, matches, response>>
       ELSE util_continue(cand, matches)
    /\ UNCHANGED <<entry, enrollVars, repair_hist, probe, reference, template, db, threshold, limit, result>>

\* one decode of the buffer in 'template': parse_iso_template,
\* extract_minutiae_from_iso, the decode of a supplied template in
\* VerifyFingerprintView.post (shorter than 32 bytes: answered with 400) or
\* the decode of a stored template in IdentifyFingerprintView.post (empty:
\* skipped; shorter than 32 bytes: IndexError of iso_data[offset-1])
DecodeCall ==
    /\ entry \in DecodeEntries
    /\ pc = "called"
    /\ IF entry = "decode_gallery" /\ template /= <<>> /\ Len(template) < DecodeOffset
       THEN /\ pc' = "raised"
            /\ UNCHANGED extracted
       ELSE /\ pc' = "returned"
            /\ extracted' =
                 CASE entry = "decode_parse" -> parse_iso_template(template)
                   [] entry = "decode_test" -> extract_minutiae_from_iso(template)
                   [] entry = "decode_supplied" ->
                        IF Len(template) >= DecodeOffset THEN supplied_minutiae(template)
                        ELSE <<>>
                   [] OTHER ->
                        IF template = <<>> THEN <<>> ELSE gallery_minutiae(template)
    /\ UNCHANGED <<entry, samples, sample_idx, xyt_files, fused, canonical, quantized, stabilized,
                   iso_data, xyt_data, status, error_message, repair_hist, matchVars>>

\* the template bytes written for a point list by the enrollment handler,
\* by generate_iso_template_from_minutiae of the verification handler, or by
\* FingerprintProcessor.generate_iso_template
EncodeCall ==
    /\ entry \in EncodeEntries
    /\ pc = "called"
    /\ iso_data' = CASE entry = "encode_view" -> encode_iso(stabilized)
                      [] entry = "encode_verify" -> encode_iso_verify(stabilized)
                      [] OTHER -> generate_iso_template(stabilized)
    /\ pc' = "returned"
    /\ UNCHANGED <<entry, samples, sample_idx, xyt_files, fused, canonical, quantized, stabilized,
                   extracted, xyt_data, status, error_message, repair_hist, matchVars>>

\* fuse_minutiae_points(xyt_paths) of the handlers, or the static
\* FingerprintProcessor.fuse_minutiae_points(xyt_paths)
FuseCall ==
    /\ entry \in {"fuse_view", "fuse_processor"}
    /\ pc = "called"
    /\ IF entry = "fuse_processor" /\ ~processor_unpacks(xyt_files)
       THEN \* ValueError of the unpacking leaves the function
            /\ pc' = "raised"
            /\ UNCHANGED fused
       ELSE /\ fused' \in IF entry = "fuse_view" THEN fuse_minutiae_points(xyt_files)
                          ELSE processor_fuse_minutiae_points(xyt_files)
            /\ pc' = "returned"
    /\ UNCHANGED <<entry, samples, sample_idx, xyt_files, canonical, quantized, stabilized, iso_data,
                   extracted, xyt_data, status, error_message, repair_hist, matchVars>>

\* the stages applied to a fused list: canonicalize_minutiae,
\* quantize_minutiae and stabilize_template of the enrollment handler or of
\* the verification handler
StagesCall ==
    /\ entry \in {"stages_enroll", "stages_verify"}
    /\ pc = "called"
    /\ \E c \in IF entry = "stages_enroll" THEN {canonicalize_minutiae(fused)}
                 ELSE canonicalize_minutiae_verify(fused) :
          LET q == IF entry = "stages_enroll" THEN quantize_minutiae(c)
                   ELSE quantize_minutiae_verify(c)
          IN  /\ canonical' = c
              /\ quantized' = q
              /\ stabilized' \in stabilize_template(q)
    /\ pc' = "returned"
    /\ UNCHANGED <<entry, samples, sample_idx, xyt_files, fused, iso_data, extracted, xyt_data, status, error_message,
                   repair_hist, matchVars>>

Next ==
    \/ EncodeCall
    \/ FuseCall
    \/ StagesCall
    \/ DecodeCall
    \/ EnrollPost
    \/ EnrollExtracted
    \/ StabilizeCall
    \/ RepairCall
    \/ MatchCall
    \/ VerifyPost
    \/ VerifyExtracted
    \/ MatchReturn
    \/ IdentifyViewPost
    \/ IdentifyViewExtracted
    \/ IdentifyViewScored
    \/ IdentifyUtilCall
    \/ IdentifyUtilScored

Spec == Init /\ [][Next]_vars

\* a call of the matcher that can take a step takes it: the interpreter runs
\* the call, and the exit of the scorer process is delivered to it
FairSpec ==
    /\ Spec
    /\ WF_vars(MatchCall) /\ WF_vars(MatchReturn)

(***************************************************************************)
(* Properties                                                              *)
(***************************************************************************)
Range(q) == {q[i] : i \in 1..Len(q)}

\* the x and y of p clamped to [0, 499] and its theta reduced mod 256
clamped_point(p) ==
    <<Max2(0, Min2(MaxCoord, p[1])), Max2(0, Min2(MaxCoord, p[2])), p[3] % 256>>

\* C1: for every stabilized 40-point set P, decoding the bytes the encoder
\* writes for P returns the points of P in the same order: decoded point i has
\* the clamped x and y of point i and its theta mod 256.
C1_DecodeReturnsEncodedPoints ==
    (entry = "enroll" /\ pc = "returned" /\ status = "completed" /\ Len(stabilized) = K)
    => extracted = [i \in 1..K |-> clamped_point(stabilized[i])]

\* C2: for every sample set whose fusion is non-empty, decoding the encoded
\* stabilized template yields exactly K = 40 points, each with x and y in
\* [0, 499] (stated on the decoded point list as the handler stores it).
C2_PipelineYieldsKPointsInBounds ==
    (entry = "enroll" /\ pc = "returned" /\ fused /= <<>>)
    => /\ status = "completed"
       /\ Len(xyt_data) = K
       /\ \A i \in 1..Len(xyt_data) :
             xyt_data[i][1] \in 0..MaxCoord /\ xyt_data[i][2] \in 0..MaxCoord

\* C3: for every template buffer b the encoder wrote, encoding the point list
\* decoded from b reproduces b byte for byte.
C3_ReencodeReproducesBuffer ==
    (entry \in {"verify_supplied", "verify_db"} /\ pc /= "called" /\ iso_data /= <<>>)
    => /\ extracted /= <<>>
       /\ encode_iso_verify(extracted) = iso_data

\* C4: for every non-empty quantized list, stabilize_template returns exactly
\* K = 40 points in ascending (x, y, theta) order, whatever the number of
\* input points and of rejected outliers.
C4_StabilizeReturnsKSorted ==
    (entry \in {"stabilize", "enroll", "verify_supplied", "verify_db"}
        /\ pc /= "called" /\ quantized /= <<>>)
    => /\ Len(stabilized) = K
       /\ IsSortedPoints(stabilized)

\* more than K points survive the outlier removal, which rejects some
C4_Witness ==
    /\ entry = "stabilize"
    /\ pc = "returned"
    /\ Cardinality(stabilize_inliers(quantized)) > K
    /\ Cardinality(stabilize_inliers(quantized)) < Len(quantized)
    /\ Len(stabilized) = K

\* the synthetic point of pad index i, as the specification writes it
synthetic(i) == <<300 + (10 * i), 300 + (10 * i), (20 * i) % 256>>

\* C5 as stated: an input of fewer than K = 40 real points (none of them an
\* outlier) yields exactly K points, the real points first and the synthetic
\* progression after them ("the first (K-real)" read either as the real
\* points or as written).
C5_RealFirstThenPadding ==
    (entry = "stabilize" /\ pc = "returned" /\ quantized /= <<>> /\ Len(quantized) < K
        /\ Cardinality(stabilize_inliers(quantized)) = Len(quantized))
    => LET real == Len(quantized)
       IN  /\ Len(stabilized) = K
           /\ \/ /\ \A i \in 1..real : stabilized[i] \in Range(quantized)
                 /\ \A i \in (real + 1)..K : stabilized[i] = synthetic(i - real - 1)
              \/ /\ \A i \in 1..(K - real) : stabilized[i] \in Range(quantized)
                 /\ \A i \in (K - real + 1)..K : stabilized[i] = synthetic(i - (K - real) - 1)

\* C5, amended: when r < K = 40 input points remain after the outlier
\* removal, the output has exactly K points, is sorted ascending by
\* (x, y, theta), and consists of the r retained points together with the
\* synthetic points (300+10i, 300+10i, 20i mod 256) for i = 0 .. K-r-1.
C5_PaddingMergedInOrder ==
    (entry = "stabilize" /\ pc = "returned" /\ quantized /= <<>>
        /\ Cardinality(stabilize_inliers(quantized)) < K)
    => LET kept     == Pick(quantized, stabilize_inliers(quantized))
           expected == kept \o [i \in 1..(K - Len(kept)) |-> synthetic(i - 1)]
       IN  /\ Len(stabilized) = K
           /\ IsSortedPoints(stabilized)
           /\ \A p \in Range(stabilized) \cup Range(expected) :
                 Count(stabilized, p) = Count(expected, p)

\* a padded output in which a synthetic point precedes a real one
C5_Witness ==
    /\ entry = "stabilize"
    /\ pc = "returned"
    /\ Len(quantized) < K
    /\ Len(stabilized) = K
    /\ \E i \in 1..K : \E j \in (i + 1)..K :
          /\ stabilized[i] \notin Range(quantized)
          /\ stabilized[j] \in Range(quantized)

\* C6: repair is idempotent, in the point form (mask with 0x3FFF, clamp to
\* [0, 499], theta mod 180) and in the list form (which also sorts by the
\* distance from (250, 250) and keeps at most 40 points): every further
\* application returns what the first one returned.
C6_RepairIdempotent ==
    entry = "repair"
    => /\ \A i \in 1..Len(repair_hist[1]) :
             repair_point(repair_point(repair_hist[1][i])) = repair_point(repair_hist[1][i])
       /\ \A k \in 2..Len(repair_hist) :
             /\ repair_hist[k] = repair_hist[2]
             /\ Len(repair_hist[k]) <= K
             /\ \A i \in 1..Len(repair_hist[k]) :
                   /\ repair_hist[k][i][1] \in 0..MaxCoord
                   /\ repair_hist[k][i][2] \in 0..MaxCoord
                   /\ repair_hist[k][i][3] \in 0..(MatcherAngleMod - 1)

\* a list of more than K raw points, changed by the repair, repaired twice
C6_Witness ==
    /\ entry = "repair"
    /\ Len(repair_hist) = 3
    /\ Len(repair_hist[1]) > K
    /\ repair_hist[2] /= repair_hist[1]
    /\ repair_hist[3] = repair_hist[2]

\* a line "x y theta" of repaired integers
repaired_line(line) ==
    /\ Len(line) >= 3
    /\ \A k \in 1..3 : is_int_literal(line[k])
    /\ int_of(line[1]) \in 0..MaxCoord
    /\ int_of(line[2]) \in 0..MaxCoord
    /\ int_of(line[3]) \in 0..(MatcherAngleMod - 1)

\* C7: on every entry point that invokes the scorer (verification with a
\* supplied or a stored template, both identification paths) every point line
\* of both files handed to the scorer is repaired: x, y in [0, 499] and theta
\* in [0, 179].
C7_ScorerFilesRepaired ==
    entry \in {"verify_supplied", "verify_db", "identify_view", "identify_util"}
    => \A r \in 1..Len(runs) : \A f \in 1..2 : \A l \in 1..Len(runs[r][f]) :
          repaired_line(runs[r][f][l])

\* a numeric token: an optional sign, digits with at most one '.'
is_numeric_token(t) ==
    t /= <<>> /\ isdigit(replace_first_dot(IF t[1] \in {"-", "+"} THEN Tail(t) ELSE t))

\* some non-blank line does not consist of 3 or 4 numeric tokens
has_malformed_line(lines) ==
    \E i \in 1..Len(lines) :
        /\ lines[i] /= <<>>
        /\ ~(/\ Len(lines[i]) \in 3..4
             /\ \A k \in 1..Len(lines[i]) : is_numeric_token(lines[i][k]))

\* a result of score 0, no match, carrying an error tag
failed_with_tag(res) ==
    /\ res /= <<>>
    /\ res[1].match_score = 0
    /\ ~res[1].is_match
    /\ "error" \in DOMAIN res[1]

\* C8: when a point list given to match_fingerprint_templates contains a line
\* that does not have 3 or 4 numeric tokens, the scorer is not invoked, no
\* exception is raised and the result is score 0, no match, with an error tag.
C8_MalformedLineFailsClosed ==
    (entry = "match" /\ (has_malformed_line(probe) \/ has_malformed_line(reference)))
    => /\ runs = <<>>
       /\ pc \in {"called", "returned"}
       /\ pc = "returned" => failed_with_tag(result)

\* the scorer failed at process level: missing executable, nonzero exit, or
\* output from which no score can be parsed
process_failed(p) ==
    \/ p.kind = "missing"
    \/ p.kind = "exit" /\ p.returncode /= 0
    \/ p.kind = "exit" /\ p.returncode = 0
         /\ (p.stdout = <<>> \/ ~is_int_literal(p.stdout[1]))

\* C9: whenever the scorer fails at process level, match_fingerprint_templates
\* returns score 0 and no match together with an error tag, and no exception
\* escapes.
C9_ScorerFailureTagged ==
    (entry = "match" /\ pc /= "scoring" /\ process_failed(process))
    => /\ pc = "returned"
       /\ failed_with_tag(result)

\* C10: every call of match_fingerprint_templates eventually returns, also
\* when the scorer process never terminates.
C10_MatchEventuallyReturns ==
    (entry = "match" /\ pc = "called") ~> (pc = "returned" /\ result /= <<>>)

\* the text of a buffer that starts with the magic 'F' 'M' 'R' NUL
is_binary_template(lines) ==
    /\ lines /= <<>>
    /\ lines[1] /= <<>>
    /\ Len(lines[1][1]) >= 4
    /\ SubSeq(lines[1][1], 1, 4) = <<"F", "M", "R", "#0">>

\* a binary template, or point-list text without a malformed line
well_formed_input(lines) ==
    \/ is_binary_template(lines)
    \/ (\E i \in 1..Len(lines) : lines[i] /= <<>>) /\ ~has_malformed_line(lines)

\* C11: when one input of match_fingerprint_templates is a binary template
\* (bytes beginning with FMR NUL) and both inputs are well formed, the call is
\* not ended by the validation: the scorer is run on the pair and no
\* "Malformed ... XYT file" result is returned.
C11_BinaryTemplateScored ==
    (entry = "match" /\ pc /= "called"
        /\ (is_binary_template(probe) \/ is_binary_template(reference))
        /\ well_formed_input(probe) /\ well_formed_input(reference))
    => /\ runs /= <<>>
       /\ \A i \in 1..Len(result) : "error" \notin DOMAIN result[i]

\* C12: an enrollment request in which extract_minutiae fails for every one
\* of the N >= 1 submitted samples ends as a hard failure: the record is in
\* status 'failed', the response is an error and no template is stored.
C12_AllExtractionsFailIsFatal ==
    (entry = "enroll" /\ pc = "returned"
        /\ \A i \in 1..Len(samples) : samples[i].kind = "extract_error")
    => /\ status = "failed"
       /\ response = <<error_response(500)>>
       /\ iso_data = <<>>
       /\ xyt_data = <<>>

\* the point files of the samples whose extraction succeeded
RECURSIVE extracted_files(_)
extracted_files(fingerprints) ==
    IF fingerprints = <<>> THEN <<>>
    ELSE IF Head(fingerprints).kind = "extracted"
         THEN <<Head(fingerprints).xyt>> \o extracted_files(Tail(fingerprints))
         ELSE extracted_files(Tail(fingerprints))

\* C13: in the enrollment and the verification handler a sample whose
\* extraction fails is skipped and contributes no point to the fused set:
\* the fused set is a fusion of the point files of the other samples alone
\* (and nothing is fused when no other sample is left).
C13_FailedSampleContributesNothing ==
    (entry \in {"enroll", "verify_supplied", "verify_db", "verify_extract_only"}
        /\ pc /= "called"
        /\ \E i \in 1..Len(samples) : samples[i].kind = "extract_error")
    => IF extracted_files(samples) = <<>> THEN fused = <<>>
       ELSE fused \in fuse_minutiae_points(extracted_files(samples))

\* the stored records that hold a template
with_template(records) == {i \in 1..Len(records) : records[i].has_template}

\* C14: in an identification a failure that concerns one candidate (nonzero
\* exit or unparsable output of the scorer, a stored template that is missing
\* or shorter than its header) excludes that candidate only: the call never
\* ends with an exception or an error response, and when it has returned
\* every stored record that holds a template of at least header length was
\* compared and the answer is the ranked list of matches.
C14_CandidateFailureIsLocal ==
    (entry \in {"identify_view", "identify_util"} /\ pc \notin {"called", "scoring"})
    => /\ pc = "returned"
       /\ "matches" \in DOMAIN response[1]
       /\ response[1].matches = rank_matches(matches)
       /\ Len(runs) = Cardinality({i \in with_template(db) :
                                     Len(db[i].iso_template) >= DecodeOffset})

\* C15: on every exit path of an identification or matching call (a return
\* or an exception leaving it) every temporary file and scratch directory
\* the call created has been deleted.
C15_TemporaryFilesDeleted ==
    (entry \in {"match", "verify_supplied", "verify_db", "identify_view", "identify_util"}
        /\ pc \in {"returned", "raised"})
    => files = {}

\* the buffer starts with the four bytes 'F', 'M', 'R', 0
has_magic(buffer) == Len(buffer) >= 4 /\ SubSeq(buffer, 1, 4) = FMR0

\* C16: on every decode path (a template supplied with a verification, a
\* stored template in an identification, parse_iso_template) a buffer whose
\* first four bytes are not 'FMR\0' yields no minutiae.
C16_DecodeValidatesMagic ==
    (entry \in {"decode_parse", "decode_supplied", "decode_gallery"}
        /\ pc /= "called" /\ ~has_magic(template))
    => extracted = <<>>

\* the number of six-byte records that lie completely inside the buffer,
\* among those its count byte declares
records_that_fit(buffer) ==
    IF Len(buffer) < 32 THEN 0
    ELSE Min2(ByteAt(buffer, 31), (Len(buffer) - 32) \div 6)

\* C17: for every byte buffer of any length (shorter than the header, or
\* declaring more records than the buffer holds) a decode never raises and
\* returns the records that fit completely in the buffer, possibly none
\* (stated for buffers that are shorter than the header, or start with the
\* magic and declare at most MAX_MINUTIAE records: no decoder is asked to
\* reject or to cap these).
C17_DecodeTruncatesGracefully ==
    (entry \in {"decode_parse", "decode_test", "decode_gallery"}
        /\ pc /= "called"
        /\ \/ Len(template) < 32
           \/ has_magic(template) /\ ByteAt(template, 31) <= MAX_MINUTIAE)
    => /\ pc = "returned"
       /\ Len(extracted) = records_that_fit(template)

\* C18: for the same samples the verification pipeline in extract_only mode
\* produces the template bytes and the template hash the enrollment pipeline
\* produces (and extracts a template exactly when the enrollment completes).
C18_VerifyExtractEqualsEnrollment ==
    (entry = "verify_extract_only" /\ pc = "returned")
    => IF response = <<extracted_response>>
       THEN [iso_template |-> iso_data, template_hash |-> generate_template_hash(stabilized)]
               \in enrollment_templates(samples)
       ELSE enrollment_templates(samples) = {}

\* the quantized list has more than K inliers and several of them are tied
\* on the distance from the centre at the last of the K places
tied_at_cutoff(points) ==
    LET distances == stabilize_distances(points)
        inl       == stabilize_inliers(points)
    IN  /\ Cardinality(inl) > K
        /\ \E d \in 0..MaxDistance :
              /\ Cardinality({i \in inl : distances[i] < d}) < K
              /\ Cardinality({i \in inl : distances[i] <= d}) > K

C20_CircularMeanAcrossWrap ==
    (entry = "enroll" /\ pc = "returned"
        /\ Len(xyt_files) = 2
        /\ \E x \in 0..MaxCoord, y \in 0..MaxCoord :
              {xyt_files[1], xyt_files[2]} = {<<<<x, y, 350>>>>, <<<<x, y, 10>>>>})
    => fused = <<<<xyt_files[1][1][1], xyt_files[1][1][2], 0>>>>

\* the bins of [0, 180) that hold the theta of some point
covered_bins(points) == {angle_bin(points[i][3]) : i \in 1..Len(points)}

\* C21: for every input of at least 8 points (in particular 40 points all
\* at theta = 5) each of the 8 equal bins of [0, 180) holds the theta of at
\* least one point after the canonicalization with the angle-diversity
\* redistribution.
C21_EveryBinCovered ==
    (entry \in {"stages_verify", "verify_supplied", "verify_db", "verify_extract_only"}
        /\ pc /= "called" /\ Len(fused) >= NumBins)
    => /\ Len(canonical) = Len(fused)
       /\ \A i \in 1..Len(canonical) : canonical[i][3] \in 0..179
       /\ covered_bins(canonical) = 0..(NumBins - 1)

\* 40 points all at theta = 5 were canonicalized
C21_Witness ==
    /\ entry = "stages_verify"
    /\ pc = "returned"
    /\ fused = same_angle(K, 5)
    /\ covered_bins(canonical) = 0..(NumBins - 1)

\* a verification request whose template is the one the enrollment of the
\* same samples returned
self_verification ==
    /\ entry = "verify_supplied"
    /\ threshold = Threshold
    /\ template \in self_templates(samples)

\* the scorer was not consulted, or it ended normally with the score 55
scorer_agrees ==
    \/ process.kind = "none"
    \/ /\ process.kind = "exit" /\ process.returncode = 0
       /\ process.stdout = <<<<"5", "5">>>>

\* C22: self-match.  Verifying samples against the template enrolled from
\* the same samples answers 200 with is_match = true at threshold 40 (as far
\* as the handler decides: whenever the scorer, if run, reports a score at
\* or above the threshold).
C22_SelfMatch ==
    (self_verification /\ pc = "returned" /\ scorer_agrees) =>
        /\ response /= <<>>
        /\ response[1].status = 200
        /\ response[1].is_match

\* the list in reverse order
reversed(points) == [i \in 1..Len(points) |-> points[Len(points) + 1 - i]]

\* every coordinate and angle moved by one unit towards the value it is
\* rounded to, or away from it without leaving its rounding class
nudged(points) ==
    [i \in 1..Len(points) |->
        <<IF points[i][1] % 4 = 0 THEN points[i][1] + 1
          ELSE IF points[i][1] % 4 = 3 THEN points[i][1] + 1 ELSE points[i][1],
          IF points[i][2] % 2 = 1 /\ points[i][2] % 4 = 1 THEN points[i][2] - 1 ELSE points[i][2],
          IF points[i][3] % 5 \in {0, 1} THEN points[i][3] + 1
          ELSE IF points[i][3] % 5 = 4 THEN points[i][3] + 2 ELSE points[i][3]>>]

\* the sorted list of normalized points: x and y rounded to a multiple of 2,
\* theta to a multiple of 5 modulo 360
sorted_normalized(points) ==
    SortPoints([i \in 1..Len(points) |->
        <<RoundHalfEven(points[i][1], 2) * 2, RoundHalfEven(points[i][2], 2) * 2,
          (RoundHalfEven(points[i][3], 5) * 5) % 360>>])

\* other lists a request could carry in place of the given one
hash_variants(points) ==
    {reversed(points), nudged(points), reversed(nudged(points)),
     [i \in 1..Len(points) |-> <<points[i][1], points[i][2], (points[i][3] + 3) % 360>>]}

\* C23: generate_template_hash depends only on the sorted list of normalized
\* points: a permutation of the list, or a list whose points round to the
\* same values, has the same digest.
C23_HashOfNormalizedPoints ==
    (entry \in {"stages_enroll", "stages_verify"} /\ pc = "returned") =>
        \A L \in {fused, stabilized} : \A v \in hash_variants(L) :
            sorted_normalized(v) = sorted_normalized(L)
                => generate_template_hash(v) = generate_template_hash(L)

C23_Witness ==
    /\ entry = "stages_enroll" /\ pc = "returned"
    /\ Len(fused) > K
    /\ nudged(fused) /= fused
    /\ sorted_normalized(reversed(nudged(fused))) = sorted_normalized(fused)
    /\ generate_template_hash(reversed(nudged(fused))) = generate_template_hash(fused)

\* x and y of every point of the list are in [0, 499]
within_image(points) ==
    \A i \in 1..Len(points) : points[i][1] \in 0..MaxCoord /\ points[i][2] \in 0..MaxCoord

\* C24: every point output by canonicalize, quantize and stabilize has x and
\* y in [0, 499], the padding points of the stabilizer and the points far
\* from the centroid included.
C24_StagesWithinImage ==
    (entry \in {"stages_enroll", "stages_verify"} /\ pc = "returned") =>
        within_image(canonical) /\ within_image(quantized) /\ within_image(stabilized)

\* the files in reverse order, each with its lines in reverse order
reordered(xyt_paths) ==
    reversed([k \in 1..Len(xyt_paths) |-> reversed(xyt_paths[k])])

\* what the fuser of the entry point can return for the files
fuser_outputs(xyt_paths) ==
    IF entry = "fuse_view" THEN fuse_minutiae_points(xyt_paths)
    ELSE processor_fuse_minutiae_points(xyt_paths)

\* C25: fuse_minutiae_points outputs exactly one point per cluster (a maximal
\* set of at least 2 points chained by distances of at most 12); a point
\* with no other point within 12 contributes nothing; the output is sorted by
\* (x, y, theta) and does not depend on the order of the files or lines.
C25_OnePointPerCluster ==
    (entry \in {"fuse_view", "fuse_processor"} /\ pc = "returned") =>
        /\ Len(fused) = Cardinality(chained_clusters(processor_all_minutiae(xyt_files), Eps))
        /\ fused = SortPoints(fused)
        /\ fuser_outputs(reordered(xyt_files)) = fuser_outputs(xyt_files)

\* the clusters the fuser of the entry point forms
fuser_clusters ==
    IF entry = "fuse_view" THEN dbscan_clusters(collect_minutiae(xyt_files))
    ELSE chained_clusters(processor_all_minutiae(xyt_files), ProcessorEps)

\* the points the fuser of the entry point clusters
fuser_points ==
    IF entry = "fuse_view" THEN collect_minutiae(xyt_files)
    ELSE processor_all_minutiae(xyt_files)

\* twice the distance of v from the mean sum / n is at most bound
within_of_mean(v, sum, n, bound) ==
    /\ 2 * ((v * n) - sum) <= bound * n
    /\ 2 * (sum - (v * n)) <= bound * n

\* C26 as stated: for every cluster the fused point's x (and y) is the
\* arithmetic mean of the cluster's x (y) values rounded to the nearest
\* integer (at most one half away from the mean).
C26_MeanRoundedToNearest ==
    (entry \in {"fuse_view", "fuse_processor"} /\ pc = "returned") =>
        \A c \in fuser_clusters :
            \E i \in 1..Len(fused) :
                /\ within_of_mean(fused[i][1], SeqSum(Column(Pick(fuser_points, c), 1)), Cardinality(c), 1)
                /\ within_of_mean(fused[i][2], SeqSum(Column(Pick(fuser_points, c), 2)), Cardinality(c), 1)

\* C26 amended: for every cluster the fused point's x (and y) is the
\* arithmetic mean of the cluster's x (y) values truncated to an integer:
\* the largest integer not above the mean of non-negative coordinates.
C26_MeanTruncated ==
    (entry \in {"fuse_view", "fuse_processor"} /\ pc = "returned") =>
        \A c \in fuser_clusters :
            \E i \in 1..Len(fused) :
                /\ fused[i][1] = SeqSum(Column(Pick(fuser_points, c), 1)) \div Cardinality(c)
                /\ fused[i][2] = SeqSum(Column(Pick(fuser_points, c), 2)) \div Cardinality(c)

C26_Witness ==
    /\ entry = "fuse_view" /\ pc = "returned"
    /\ xyt_files = <<<<<<100, 100, 20>>, <<101, 101, 20>>>>, <<<<101, 100, 20>>>>>>
    /\ Len(fused) = 1
    /\ fused[1][1] = 100 /\ fused[1][2] = 100

\* the coordinate clamped into [0, 499]
clamped(v) == Max2(0, Min2(MaxCoord, v))

\* q is a multiple of 8 and no multiple of 8 is nearer to the clamped v
nearest_grid(q, v) ==
    /\ q % 8 = 0
    /\ q - clamped(v) <= 4
    /\ clamped(v) - q <= 4

\* C27: quantize_minutiae returns as many points as it receives, in the same
\* order; each output x and y is a multiple of 8 nearest to the input
\* coordinate clamped into [0, 499], and each output theta is a multiple of 10.
C27_QuantizedToGrid ==
    (entry \in {"stages_enroll", "stages_verify"} /\ pc = "returned") =>
        /\ Len(quantized) = Len(canonical)
        /\ \A i \in 1..Len(quantized) :
              /\ nearest_grid(quantized[i][1], canonical[i][1])
              /\ nearest_grid(quantized[i][2], canonical[i][2])
              /\ quantized[i][3] % 10 = 0

\* the lengths a template's header declares: the four bytes after the magic
\* and the two-byte "record length" of the handlers' header (high byte
\* first), total_length of the processor's header (low byte first)
declared_lengths(buffer) ==
    IF entry = "encode_processor"
    THEN {ByteAt(buffer, 8) + (256 * ByteAt(buffer, 9)) + (65536 * ByteAt(buffer, 10))
          + (16777216 * ByteAt(buffer, 11))}
    ELSE {(16777216 * ByteAt(buffer, 4)) + (65536 * ByteAt(buffer, 5))
          + (256 * ByteAt(buffer, 6)) + ByteAt(buffer, 7),
          (256 * ByteAt(buffer, 10)) + ByteAt(buffer, 11)}

\* C28: in every encoded template the record length declared in the header
\* equals the number of bytes of the template produced, for every number
\* of input minutiae, more than 40 included.
C28_DeclaredLengthIsActual ==
    (entry \in EncodeEntries /\ pc = "returned") =>
        Len(iso_data) \in declared_lengths(iso_data)

\* C29: in the response of an identification each stored template appears at
\* most once in the ranked matches; the list is ordered by non-increasing
\* score and holds at most limit entries, each with a score of at least the
\* threshold; total_matches_found is the number of stored templates whose
\* score reached the threshold.
C29_RankedMatchesDistinct ==
    (entry \in {"identify_view", "identify_util"} /\ pc = "returned"
        /\ response /= <<>> /\ "matches" \in DOMAIN response[1]) =>
        LET ranked == response[1].matches
        IN  /\ \A i, j \in 1..Len(ranked) :
                  i /= j => ranked[i].template_id /= ranked[j].template_id
            /\ \A i \in 1..(Len(ranked) - 1) : ranked[i].match_score >= ranked[i + 1].match_score
            /\ Len(ranked) <= limit
            /\ \A i \in 1..Len(ranked) : ranked[i].match_score >= threshold
            /\ "total_matches_found" \in DOMAIN response[1] =>
                  response[1].total_matches_found
                      = Cardinality({matches[i].template_id : i \in 1..Len(matches)})

\* the record of the enrollment is settled: it is 'completed' exactly when
\* the response is 201 and a template was stored, and 'failed' with an error
\* message exactly when the response is 500
record_settled ==
    /\ status \in {"completed", "failed"}
    /\ response /= <<>>
    /\ response[1].status \in {201, 500}
    /\ status = "completed" <=> (response[1].status = 201 /\ iso_data /= <<>>)
    /\ status = "failed" <=> response[1].status = 500
    /\ status = "failed" => error_message /= ""

\* C30: every record ProcessFingerprintTemplateView.post creates in status
\* 'processing' has left that status when post returns: it is 'completed'
\* exactly when the response is 201 and a template was stored, and 'failed'
\* with an error message exactly when the response is 500; no returning
\* path leaves the record in 'processing'.
C30_RecordLeavesProcessing ==
    (entry \in {"enroll", "enroll_without_mindtct"} /\ pc = "returned") => record_settled

C30_Witness ==
    /\ entry = "enroll" /\ pc = "returned"
    /\ sample_idx > 0
    /\ status = "failed" /\ error_message /= ""
    /\ response = <<error_response(500)>>
    /\ db /= <<>>

====
